---- MODULE Spec2Model ----
(***************************************************************************)
(* Phone-call reminder bot: the 'reminders' BullMQ queue (ReminderQueue),  *)
(* the two workers attached to it (the placeholder worker created by       *)
(* ReminderQueue and the calling worker created by ReminderWorker), the    *)
(* failure handler with its retry scheduling, cancelReminder and           *)
(* forceProcessJob.                                                        *)
(*                                                                         *)
(* Time is the value of Date.now() in milliseconds.  Strings that the code *)
(* inspects (error messages) are sequences of one-character strings.       *)
(***************************************************************************)
EXTENDS Integers, Sequences, FiniteSets, TLC

\* ------------------------------------------------------------------ bounds
MaxTicks == 1       \* advances of the clock
MaxForce == 1       \* calls of forceProcessJob
MaxFaults == 1      \* attempts that BullMQ ends in failure
MaxSyncs == 2       \* periodic calendar syncs

\* --------------------------------------------------------- program constants
RetryDelayCap == 5 * 60 * 1000      \* scheduleRetry: Math.min(5 * 60 * 1000, ...)
DefaultAttempts == 3                \* defaultJobOptions.attempts
BackoffDelay == 2000                \* defaultJobOptions.backoff.delay
RetryAttempts == 1                  \* scheduleRetry: attempts: 1
Concurrency == 5                    \* concurrency of each Worker
CalendarPriority == 10              \* scheduleEventReminder: priority: 10
SyncPeriod == 5 * 60 * 1000         \* startPeriodicSync: setInterval(..., 5 * 60 * 1000)
FetchWindow == 24 * 60 * 60 * 1000  \* fetchUpcomingEvents: next 24 hours
ReminderAdvance == 10 * 60 * 1000   \* processCalendarEvent: 10 minutes before
MaxReminderDelayDays == 30          \* Config: MAX_REMINDER_DELAY_DAYS || '30'
MsPerDay == 24 * 60 * 60 * 1000     \* validateDelay: maxDays * 24 * 60 * 60 * 1000

\* The clock advances in steps of TickMs.
TickMs == 2 * RetryDelayCap
Times == {k * TickMs : k \in 0..MaxTicks}

\* ------------------------------------------------------------------ strings
UpperCase == <<"A","B","C","D","E","F","G","H","I","J","K","L","M","N","O","P","Q","R","S","T","U","V","W","X","Y","Z">>
LowerCase == <<"a","b","c","d","e","f","g","h","i","j","k","l","m","n","o","p","q","r","s","t","u","v","w","x","y","z">>

\* String.prototype.toLowerCase, one character
toLowerChar(c) ==
  IF \E i \in 1..Len(UpperCase) : UpperCase[i] = c
  THEN LowerCase[CHOOSE i \in 1..Len(UpperCase) : UpperCase[i] = c]
  ELSE c

\* String.prototype.toLowerCase
toLowerCase(s) == [i \in 1..Len(s) |-> toLowerChar(s[i])]

\* String.prototype.includes
includes(s, sub) ==
  \E i \in 0..(Len(s) - Len(sub)) : SubSeq(s, i + 1, i + Len(sub)) = sub

\* shouldRetry: the list retryableErrors
retryableErrors ==
  << <<"E","C","O","N","N","R","E","S","E","T">>,
     <<"E","T","I","M","E","D","O","U","T">>,
     <<"E","N","O","T","F","O","U","N","D">>,
     <<"E","C","O","N","N","R","E","F","U","S","E","D">>,
     <<"N","e","t","w","o","r","k"," ","E","r","r","o","r">>,
     <<"t","i","m","e","o","u","t">>,
     <<"r","a","t","e"," ","l","i","m","i","t">>,
     <<"q","u","o","t","a"," ","e","x","c","e","e","d","e","d">> >>

\* A plausible slip: the message is not lower-cased before the comparison.
shouldRetryCaseSensitive(error) ==
  \E k \in 1..Len(retryableErrors) : includes(error, toLowerCase(retryableErrors[k]))

\* ReminderWorker.shouldRetry
shouldRetry(error) ==
  LET errorMessage == toLowerCase(error)
  IN  \E k \in 1..Len(retryableErrors) :
        includes(errorMessage, toLowerCase(retryableErrors[k]))

\* Error messages used as inputs.
ErrConnectTimedOut == <<"c","o","n","n","e","c","t"," ","E","T","I","M","E","D","O","U","T">>
ErrRateLimit == <<"R","a","t","e"," ","L","i","m","i","t"," ","h","i","t">>
ErrBadNumber == <<"B","a","d"," ","n","u","m","b","e","r">>
ErrorMessages == {ErrConnectTimedOut, ErrRateLimit, ErrBadNumber}

\* Further error messages, used where the classification alone is exercised.
ErrEconnresetLower == <<"r","e","a","d"," ","e","c","o","n","n","r","e","s","e","t">>
ErrEnotfound == <<"g","e","t","a","d","d","r","i","n","f","o"," ","E","N","O","T","F","O","U","N","D"," ","a","p","i">>
ErrEconnrefused == <<"E","C","O","N","N","R","E","F","U","S","E","D">>
ErrNetworkLower == <<"n","e","t","w","o","r","k"," ","e","r","r","o","r">>
ErrRequestTimeout == <<"R","e","q","u","e","s","t"," ","T","i","m","e","o","u","t">>
ErrQuotaUpper == <<"Q","U","O","T","A"," ","E","X","C","E","E","D","E","D">>
ErrPrefixOnly == <<"e","t","i","m","e","d","o","u">>
ErrTimeOutSpaced == <<"t","i","m","e"," ","o","u","t">>
ErrEmpty == << >>
ErrStalled == <<"j","o","b"," ","s","t","a","l","l","e","d"," ","m","o","r","e"," ","t","h","a","n"," ","a","l","l","o","w","a","b","l","e"," ","l","i","m","i","t">>
ErrRateLimitJoined == <<"r","a","t","e","l","i","m","i","t">>
ClassifyMessages ==
  ErrorMessages \cup
  {ErrEconnresetLower, ErrEnotfound, ErrEconnrefused, ErrNetworkLower, ErrRequestTimeout, ErrQuotaUpper,
   ErrPrefixOnly, ErrTimeOutSpaced, ErrEmpty, ErrStalled, ErrRateLimitJoined}

\* Errors the Twilio client raises in calls.create
TwilioErrors == {ErrConnectTimedOut}

\* ------------------------------------------------------------------- inputs
MessageIds == {"m1"}
Messages == {"call mum"}
Delays == {0, TickMs}
UnknownId == [kind |-> "remind", key |-> "none", at |-> 0, retryAt |-> -1]

\* The callers of addReminder: handleRemindCommand passes no options,
\* scheduleEventReminder passes the calendar owner and priority 10.
Callers ==
  { [userId |-> "u1", channelId |-> "c1", priority |-> 0],
    [userId |-> "google-calendar", channelId |-> "calendar-system",
     priority |-> CalendarPriority] }

\* The two Worker objects attached to the 'reminders' queue.
QueueWorker == "queue"          \* ReminderQueue.worker (placeholder processor)
CallWorker == "worker"          \* ReminderWorker.worker (places the call)
Workers == {QueueWorker, CallWorker}

\* -------------------------------------------------------------------- state
VARIABLES
  now,          \* Date.now()
  jobs,         \* the 'reminders' queue in Redis: job id -> job
  hist,         \* history per inserted job id: calls placed, cancel accepted
  nForce,       \* calls of forceProcessJob so far
  nFaults,      \* failed attempts so far
  calendar,     \* GoogleCalendarService and the calendar it reads
  call,         \* the call of a ReminderQueue method a client has under way
  worker        \* the ReminderWorker object and the process it lives in

vars == <<now, jobs, hist, nForce, nFaults, calendar, call, worker>>

Min(a, b) == IF a < b THEN a ELSE b

\* ReminderWorker after its constructor: isRunning is false, and the BullMQ
\* Worker it has created fetches jobs already (autorun is on by default).
\* `run` is the state of that Worker, `phase` how far main has come with the
\* object.
NewWorker == [isRunning |-> FALSE, run |-> "running", phase |-> "constructed"]

\* ReminderWorker after start() has returned
StartedWorker == [isRunning |-> TRUE, run |-> "running", phase |-> "started"]

\* GoogleCalendarService after its constructor, reading an empty calendar
\* (`connection` is what testConnection has returned to start, `start` how
\* start has ended)
NoCalendar ==
  [isRunning |-> FALSE, syncInterval |-> FALSE, events |-> {},
   connection |-> "untested", start |-> "none"]

\* No call of a ReminderQueue method is under way and none has returned
NoCall == [op |-> "none"]

\* ReminderJobResult before the processor has returned
NoResult == [done |-> FALSE, success |-> FALSE, callSid |-> FALSE, error |-> <<>>]

NoData == [message |-> "", userId |-> "", channelId |-> "", messageId |-> "",
           priority |-> 0, createdAt |-> 0]

NoJob == [name |-> "", data |-> NoData, delay |-> 0, priority |-> 0,
          attempts |-> 0, attemptsMade |-> 0, timestamp |-> 0, due |-> 0,
          state |-> "none", lockedBy |-> "none", returnvalue |-> NoResult,
          failedReason |-> <<>>]

\* Queue.add of BullMQ: a job whose id is already present is not added again;
\* a job with a delay is stored delayed, a job without one is ready at once
\* (in the prioritized set when it has a priority, in the wait list otherwise).
QueueAdd(q, id, name, data, delay, priority, attempts, t) ==
  IF id \in DOMAIN q THEN q
  ELSE q @@ (id :> [name |-> name, data |-> data, delay |-> delay,
                    priority |-> priority, attempts |-> attempts,
                    attemptsMade |-> 0, timestamp |-> t, due |-> t + delay,
                    state |-> IF delay > 0 THEN "delayed"
                              ELSE IF priority > 0 THEN "prioritized"
                              ELSE "waiting",
                    lockedBy |-> "none", returnvalue |-> NoResult,
                    failedReason |-> <<>>])

\* Job.remove of BullMQ, for a job that is not locked
QueueRemove(q, id) == [i \in DOMAIN q \ {id} |-> q[i]]

\* History entry of a job that has just been inserted
NewHist ==
  [calls |-> 0, early |-> FALSE, onTime |-> FALSE, cancelled |-> FALSE]

\* The history after the store went from q to q2: entries for the new jobs
HistAfterAdd(h, q, q2) ==
  [i \in DOMAIN h \cup DOMAIN q2 |->
     IF i \in DOMAIN q2 /\ i \notin DOMAIN q THEN NewHist ELSE h[i]]

Init ==
  /\ now = 0
  /\ jobs = << >>
  /\ hist = << >>
  /\ nForce = 0 /\ nFaults = 0
  /\ calendar = NoCalendar /\ call = NoCall /\ worker = StartedWorker

\* ReminderQueue.addReminder
AddReminder(message, delayMs, caller, messageId) ==
  /\ LET jobData == [message |-> message, userId |-> caller.userId,
                     channelId |-> caller.channelId, messageId |-> messageId,
                     priority |-> caller.priority, createdAt |-> now]
         id == [kind |-> "remind", key |-> messageId, at |-> now, retryAt |-> -1]
         q2 == QueueAdd(jobs, id, "reminder", jobData, delayMs, caller.priority,
                        DefaultAttempts, now)
     IN  \* MessageIds bounds the reminders: each key is inserted once
         /\ \A i \in DOMAIN hist : i.key /= messageId
         /\ jobs' = q2
         /\ hist' = HistAfterAdd(hist, jobs, q2)
  /\ UNCHANGED <<now, nForce, nFaults, calendar, call, worker>>

\* The clock advances.
Tick ==
  /\ now < MaxTicks * TickMs
  /\ now' = now + TickMs
  /\ UNCHANGED <<jobs, hist, nForce, nFaults, calendar, call, worker>>

ActiveOn(w) == {i \in DOMAIN jobs : jobs[i].state = "active" /\ jobs[i].lockedBy = w}

\* A plausible slip: the due time of a delayed job is not looked at.
ReadyIgnoringDue(job, t) ==
  job.state \in {"waiting", "prioritized", "delayed"}

\* A job a worker may fetch: one in the wait list or the prioritized set, or
\* a delayed job whose time has come (the fetch promotes it first).
Ready(job, t) ==
  \/ job.state \in {"waiting", "prioritized"}
  \/ job.state = "delayed" /\ job.due <= t

\* A Worker fetches a ready job: BullMQ moves it to active and locks it for
\* that worker in one atomic step; a worker holds at most Concurrency jobs.
Claim(w, id) ==
  /\ id \in DOMAIN jobs
  /\ Ready(jobs[id], now)
  /\ Cardinality(ActiveOn(w)) < Concurrency
  /\ jobs' = [jobs EXCEPT ![id].state = "active", ![id].lockedBy = w]
  /\ UNCHANGED <<now, hist, nForce, nFaults, calendar, call, worker>>

\* What twilioService.makeCallWithTTS / makeCallWithAudio return: calls.create
\* resolves, or it throws and the error message is returned with success false.
CallResults ==
  {[success |-> TRUE, error |-> <<>>]} \cup
  {[success |-> FALSE, error |-> e] : e \in TwilioErrors}

\* The time a job was scheduled for: its creation time plus its delay
DueAt(job) == job.timestamp + job.delay

\* The history after a call was placed for the job with id `id` at time t
RecordCall(h, id, job, t) ==
  [h EXCEPT ![id] =
     [@ EXCEPT !.calls = @ + 1,
               !.early = @ \/ t < DueAt(job),
               !.onTime = @ \/ t >= DueAt(job)]]

\* ReminderWorker.processReminderJob: the result it returns for a call result
processReminderJob(r) ==
  [done |-> TRUE, success |-> r.success, callSid |-> r.success, error |-> r.error]

\* ReminderQueue.processReminderJob: the placeholder, no call is placed
placeholderResult ==
  [done |-> TRUE, success |-> TRUE, callSid |-> FALSE, error |-> <<>>]

\* The processor of the worker that holds the job runs and returns.
Process(id) ==
  /\ id \in DOMAIN jobs
  /\ jobs[id].state = "active"
  /\ ~jobs[id].returnvalue.done
  /\ \/ /\ jobs[id].lockedBy = CallWorker
        /\ \E r \in CallResults :
             /\ jobs' = [jobs EXCEPT ![id].returnvalue = processReminderJob(r)]
             /\ hist' = RecordCall(hist, id, jobs[id], now)
     \/ /\ jobs[id].lockedBy = QueueWorker
        /\ jobs' = [jobs EXCEPT ![id].returnvalue = placeholderResult]
        /\ hist' = hist
  /\ UNCHANGED <<now, nForce, nFaults, calendar, call, worker>>

\* The processor has returned: BullMQ moves the job to completed whatever the
\* returned value is, and keeps it (removeOnComplete: 100).
Complete(id) ==
  /\ id \in DOMAIN jobs
  /\ jobs[id].state = "active"
  /\ jobs[id].returnvalue.done
  /\ jobs' = [jobs EXCEPT ![id].state = "completed", ![id].lockedBy = "none"]
  /\ UNCHANGED <<now, hist, nForce, nFaults, calendar, call, worker>>

\* Id of the retry job: `retry-${job.id}-${Date.now()}`
RetryId(id, t) == [kind |-> "retry", key |-> id.key, at |-> id.at, retryAt |-> t]

\* A plausible slip: the retry keeps the delay and the priority of the job.
scheduleRetryUnchanged(q, id, job, t) ==
  QueueAdd(q, RetryId(id, t), "reminder-retry", job.data,
           job.delay, job.priority, RetryAttempts, t)

\* ReminderWorker.scheduleRetry: the queue after the retry job was added
scheduleRetry(q, id, job, t) ==
  QueueAdd(q, RetryId(id, t), "reminder-retry", job.data,
           Min(RetryDelayCap, job.delay), job.priority + 1, RetryAttempts, t)

\* ReminderWorker.handleFailedJob: the queue after the handler has run
handleFailedJob(q, id, job, error, t) ==
  IF shouldRetry(error) THEN scheduleRetry(q, id, job, t) ELSE q

\* Exponential backoff of BullMQ for the attempt that has just failed
Backoff(attemptsMade) == (2 ^ (attemptsMade - 1)) * BackoffDelay

\* BullMQ ends an attempt of an active job in failure (the job stalled, or the
\* store raised `error` while the attempt was being finished): the job waits
\* for its next attempt while it has attempts left and is failed otherwise
\* (kept: removeOnFail: 50); the worker that held it emits 'failed', and the
\* handler of ReminderWorker passes jobs named 'reminder' to handleFailedJob.
FailAttempt(id, error) ==
  /\ nFaults < MaxFaults
  /\ id \in DOMAIN jobs
  /\ jobs[id].state = "active"
  /\ LET job == jobs[id]
         made == job.attemptsMade + 1
         q1 == [jobs EXCEPT ![id] =
                  IF made < job.attempts
                  THEN [job EXCEPT !.attemptsMade = made, !.state = "delayed",
                                   !.due = now + Backoff(made),
                                   !.lockedBy = "none", !.returnvalue = NoResult,
                                   !.failedReason = error]
                  ELSE [job EXCEPT !.attemptsMade = made, !.state = "failed",
                                   !.lockedBy = "none", !.failedReason = error]]
         handled == job.lockedBy = CallWorker /\ job.name = "reminder"
         q2 == IF handled THEN handleFailedJob(q1, id, job, error, now) ELSE q1
     IN  /\ jobs' = q2
         /\ hist' = HistAfterAdd(hist, q1, q2)
  /\ nFaults' = nFaults + 1
  /\ UNCHANGED <<now, nForce, calendar, call, worker>>

\* ReminderQueue.cancelReminder: the queue afterwards and the value returned.
\* Job.remove throws for a job that a worker holds locked (an active job).
cancelReminder(q, id) ==
  IF id \in DOMAIN q
  THEN IF q[id].state = "active"
       THEN [queue |-> q, result |-> FALSE]
       ELSE [queue |-> QueueRemove(q, id), result |-> TRUE]
  ELSE [queue |-> q, result |-> FALSE]

CancelReminder(id) ==
  /\ id \in DOMAIN jobs \cup {UnknownId}
  /\ LET c == cancelReminder(jobs, id)
     IN  /\ jobs' = c.queue
         /\ hist' = IF c.result
                    THEN [hist EXCEPT ![id].cancelled = TRUE] ELSE hist
  /\ UNCHANGED <<now, nForce, nFaults, calendar, call, worker>>

\* ReminderWorker.forceProcessJob: processReminderJob runs on the job that
\* getJob returns, whatever its state; the queue is not touched.
ForceProcessJob(id) ==
  /\ nForce < MaxForce
  /\ id \in DOMAIN jobs \cup {UnknownId}
  /\ IF id \in DOMAIN jobs
     THEN hist' = RecordCall(hist, id, jobs[id], now)
     ELSE hist' = hist
  /\ nForce' = nForce + 1
  /\ UNCHANGED <<now, jobs, nFaults, calendar, call, worker>>

JobIds == DOMAIN jobs

\* Every operation, with the attempts that BullMQ ends in failure.
Next ==
  \/ \E m \in Messages, d \in Delays, c \in Callers, k \in MessageIds :
       AddReminder(m, d, c, k)
  \/ Tick
  \/ \E w \in Workers, id \in JobIds : Claim(w, id)
  \/ \E id \in JobIds : Process(id)
  \/ \E id \in JobIds : Complete(id)
  \/ \E id \in JobIds, e \in ErrorMessages : FailAttempt(id, e)
  \/ \E id \in JobIds \cup {UnknownId} : CancelReminder(id)
  \/ \E id \in JobIds \cup {UnknownId} : ForceProcessJob(id)

Spec == Init /\ [][Next]_vars

\* The queue, its two workers and cancelReminder: forceProcessJob is not used.
NextQueue ==
  \/ \E m \in Messages, d \in Delays, c \in Callers, k \in MessageIds :
       AddReminder(m, d, c, k)
  \/ Tick
  \/ \E w \in Workers, id \in JobIds : Claim(w, id)
  \/ \E id \in JobIds : Process(id)
  \/ \E id \in JobIds : Complete(id)
  \/ \E id \in JobIds, e \in ErrorMessages : FailAttempt(id, e)
  \/ \E id \in JobIds \cup {UnknownId} : CancelReminder(id)

SpecQueue == Init /\ [][NextQueue]_vars

\* An available store and fair workers: no attempt is ended in failure by
\* BullMQ, the clock advances, each worker that can fetch a job does so, and a
\* processor that was started returns and its job is finished.
NextAvailable ==
  \/ \E m \in Messages, d \in Delays, c \in Callers, k \in MessageIds :
       AddReminder(m, d, c, k)
  \/ Tick
  \/ \E w \in Workers, id \in JobIds : Claim(w, id)
  \/ \E id \in JobIds : Process(id)
  \/ \E id \in JobIds : Complete(id)
  \/ \E id \in JobIds \cup {UnknownId} : CancelReminder(id)
  \/ \E id \in JobIds \cup {UnknownId} : ForceProcessJob(id)

Fairness ==
  /\ WF_vars(Tick)
  /\ SF_vars(\E id \in JobIds : Claim(QueueWorker, id))
  /\ SF_vars(\E id \in JobIds : Claim(CallWorker, id))
  /\ WF_vars(\E id \in JobIds : Process(id))
  /\ WF_vars(\E id \in JobIds : Complete(id))

SpecFair == Init /\ [][NextAvailable]_vars /\ Fairness

\* The failure handler alone: a 'reminder' job is held by the calling worker,
\* before or after its processor has returned, and BullMQ ends the attempt in
\* failure with any of the error messages.
InitClassify ==
  \E k \in MessageIds, d \in Delays, c \in Callers, t0 \in Times, t \in Times,
     done \in BOOLEAN, r \in CallResults :
    LET id == [kind |-> "remind", key |-> k, at |-> t0, retryAt |-> -1]
        jobData == [message |-> "call mum", userId |-> c.userId,
                    channelId |-> c.channelId, messageId |-> k,
                    priority |-> c.priority, createdAt |-> t0]
        q == QueueAdd(<< >>, id, "reminder", jobData, d, c.priority,
                      DefaultAttempts, t0)
    IN  /\ t0 + d <= t
        /\ now = t
        /\ jobs = [q EXCEPT ![id].state = "active", ![id].lockedBy = CallWorker,
                            ![id].returnvalue =
                               IF done THEN processReminderJob(r) ELSE NoResult]
        /\ hist = (id :> [NewHist EXCEPT !.calls = IF done THEN 1 ELSE 0,
                                         !.onTime = done])
        /\ nForce = 0 /\ nFaults = 0
        /\ calendar = NoCalendar /\ call = NoCall /\ worker = StartedWorker

NextClassify ==
  \E id \in JobIds, e \in ClassifyMessages : FailAttempt(id, e)

SpecClassify == InitClassify /\ [][NextClassify]_vars

\* The queue under load: six reminders of one user, due at once, are in the
\* wait list when the two workers fetch, run and finish jobs.
LoadKeys == {"m1", "m2", "m3", "m4", "m5", "m6"}

RemindId(messageId, t) ==
  [kind |-> "remind", key |-> messageId, at |-> t, retryAt |-> -1]

InitLoad ==
  /\ now = 0
  /\ jobs = [id \in {RemindId(k, 0) : k \in LoadKeys} |->
               QueueAdd(<< >>, id, "reminder",
                        [message |-> "call mum", userId |-> "u1",
                         channelId |-> "c1", messageId |-> id.key,
                         priority |-> 0, createdAt |-> 0],
                        0, 0, DefaultAttempts, 0)[id]]
  /\ hist = [id \in {RemindId(k, 0) : k \in LoadKeys} |-> NewHist]
  /\ nForce = 0 /\ nFaults = 0
  /\ calendar = NoCalendar /\ call = NoCall /\ worker = StartedWorker

NextLoad ==
  \/ \E w \in Workers, id \in JobIds : Claim(w, id)
  \/ \E id \in JobIds : Process(id)
  \/ \E id \in JobIds : Complete(id)

SpecLoad == InitLoad /\ [][NextLoad]_vars

\* ------------------------------------------- ReminderWorker, start and stop
\* The reminders left in Redis by an earlier run of the application, due
\* when main constructs the ReminderQueue and the ReminderWorker
PersistedKeys == {"m1", "m2"}

InitWorker ==
  /\ now = 0
  /\ jobs = [id \in {RemindId(k, 0) : k \in PersistedKeys} |->
               QueueAdd(<< >>, id, "reminder",
                        [message |-> "call mum", userId |-> "u1",
                         channelId |-> "c1", messageId |-> id.key,
                         priority |-> 0, createdAt |-> 0],
                        0, 0, DefaultAttempts, 0)[id]]
  /\ hist = [id \in {RemindId(k, 0) : k \in PersistedKeys} |-> NewHist]
  /\ nForce = 0 /\ nFaults = 0
  /\ calendar = NoCalendar /\ call = NoCall /\ worker = NewWorker

\* main calls ReminderWorker.start, which awaits the Twilio connection test.
WorkerStartBegin ==
  /\ worker.phase = "constructed" /\ ~worker.isRunning
  /\ worker' = [worker EXCEPT !.phase = "testing"]
  /\ UNCHANGED <<now, jobs, hist, nForce, nFaults, calendar, call>>

\* The connection test returns. When it succeeded the Worker is running
\* already, so run() is not called, and isRunning is set; when it failed
\* start throws and main ends the process with process.exit(1).
WorkerStartEnd(twilioConnected) ==
  /\ worker.phase = "testing"
  /\ worker' = IF twilioConnected
               THEN [worker EXCEPT !.isRunning = TRUE, !.phase = "started"]
               ELSE [worker EXCEPT !.run = "exited", !.phase = "failed"]
  /\ UNCHANGED <<now, jobs, hist, nForce, nFaults, calendar, call>>

\* The shutdown handler calls ReminderWorker.stop: isRunning is cleared and
\* Worker.close is awaited, which fetches no more jobs and waits for the
\* jobs the Worker holds.
WorkerStopBegin ==
  /\ worker.phase = "started" /\ worker.isRunning
  /\ worker' = [worker EXCEPT !.isRunning = FALSE, !.run = "closing",
                              !.phase = "stopping"]
  /\ UNCHANGED <<now, jobs, hist, nForce, nFaults, calendar, call>>

\* Worker.close resolves once the Worker holds no job, and stop returns.
WorkerStopEnd ==
  /\ worker.phase = "stopping"
  /\ ActiveOn(CallWorker) = {}
  /\ worker' = [worker EXCEPT !.run = "closed", !.phase = "stopped"]
  /\ UNCHANGED <<now, jobs, hist, nForce, nFaults, calendar, call>>

\* A Worker fetches a job: the Worker of ReminderWorker while it is running,
\* the Worker of ReminderQueue until the shutdown handler has closed the
\* queue (it does so before it stops the ReminderWorker).
WorkerClaim(w, id) ==
  /\ worker.run = "running"
  /\ Claim(w, id)

\* The processor of a fetched job runs, and the job is finished, while the
\* process lives and the Worker is not closed.
WorkerProcess(id) ==
  /\ worker.run \in {"running", "closing"}
  /\ Process(id)

WorkerComplete(id) ==
  /\ worker.run \in {"running", "closing"}
  /\ Complete(id)

NextWorker ==
  \/ WorkerStartBegin
  \/ \E twilioConnected \in BOOLEAN : WorkerStartEnd(twilioConnected)
  \/ WorkerStopBegin
  \/ WorkerStopEnd
  \/ \E w \in Workers, id \in JobIds : WorkerClaim(w, id)
  \/ \E id \in JobIds : WorkerProcess(id)
  \/ \E id \in JobIds : WorkerComplete(id)

SpecWorker == InitWorker /\ [][NextWorker]_vars

\* --------------------------------------------------------------- TimeParser
\* Strings are sequences of characters, as for shouldRetry.
Digits == <<"0", "1", "2", "3", "4", "5", "6", "7", "8", "9">>

IsDigit(c) == \E i \in 1..10 : Digits[i] = c

DigitValue(c) == (CHOOSE i \in 1..10 : Digits[i] = c) - 1

AllDigits(s) == \A i \in 1..Len(s) : IsDigit(s[i])

\* \s of a regular expression and the characters String.trim removes
IsSpace(c) == c \in {" ", "\t", "\n"}

RECURSIVE trimStart(_)
trimStart(s) ==
  IF s /= << >> /\ IsSpace(s[1]) THEN trimStart(Tail(s)) ELSE s

RECURSIVE trimEnd(_)
trimEnd(s) ==
  IF s /= << >> /\ IsSpace(s[Len(s)])
  THEN trimEnd(SubSeq(s, 1, Len(s) - 1)) ELSE s

trim(s) == trimEnd(trimStart(s))

\* parseInt(s, 10) of a string of digits
RECURSIVE parseInt(_)
parseInt(s) ==
  IF s = << >> THEN 0
  ELSE parseInt(SubSeq(s, 1, Len(s) - 1)) * 10 + DigitValue(s[Len(s)])

\* Position of the first occurrence of the character c in s, 0 when absent
indexOf(s, c) ==
  IF \E i \in 1..Len(s) : s[i] = c
  THEN CHOOSE i \in 1..Len(s) : s[i] = c /\ \A j \in 1..(i - 1) : s[j] /= c
  ELSE 0

\* An instant (a Date) is a day since 1 January 1970 and the milliseconds
\* within that day, UTC; the process runs with UTC as its local time. The
\* clock `now` counts milliseconds since 0:00 of day EpochDay.
EpochDay == 19737      \* 15 January 2024

Instant(day, ms) ==
  [day |-> day + (ms \div MsPerDay), ms |-> ms % MsPerDay]

DateOf(t) == Instant(EpochDay, t)

\* a <= b for instants
NotAfter(a, b) == a.day < b.day \/ (a.day = b.day /\ a.ms <= b.ms)

\* A number of milliseconds is kept the same way, as whole days and the
\* milliseconds of a day (30 days in milliseconds are beyond the integers of
\* TLC); Ms(n) is the number n.
Ms(n) == Instant(0, n)

\* The integer of a number of milliseconds that is small enough
Millis(x) == x.day * MsPerDay + x.ms

\* a.getTime() - b.getTime()
MsBetween(a, b) == Instant(a.day - b.day, a.ms - b.ms)

\* The time value of a Date is at most 8.64e15 ms (100,000,000 days) from the
\* epoch; new Date(v) of any other v is the Invalid Date, whose time value is
\* NaN: it is neither before, nor at, nor after any instant.
MaxDateDay == 100000000

InvalidDate == [day |-> 0, ms |-> 0 - 1]

NewDate(x) ==
  IF \/ x.day > MaxDateDay \/ (x.day = MaxDateDay /\ x.ms > 0)
     \/ x.day < 0 - MaxDateDay
  THEN InvalidDate ELSE x

\* Days from 1 January 1970 to the first day of month `month` (0 = January)
\* of year `year` in the proleptic Gregorian calendar
DaysToMonth(year, month) ==
  LET y == IF month < 2 THEN year - 1 ELSE year
      era == y \div 400
      yoe == y % 400
      mp == (month + 10) % 12
      doy == (153 * mp + 2) \div 5
      doe == yoe * 365 + yoe \div 4 - yoe \div 100 + doy
  IN  era * 146097 + doe - 719468

\* new Date(year, month, day, hour, minute, 0, 0): values out of range carry
\* over into the next unit, and a year from 0 to 99 means 1900 + year.
MakeDate(year, month, day, hour, minute) ==
  LET fullYear == IF year >= 0 /\ year <= 99 THEN 1900 + year ELSE year
      y == fullYear + (month \div 12)
      m == month % 12
      d == DaysToMonth(y, m) + (day - 1) + (hour \div 24)
  IN  Instant(d, (hour % 24) * 60 * 60 * 1000 + minute * 60 * 1000)

\* A TimeParseResult; an error that is undefined is the empty sequence, an
\* error message is the sequence of its parts.
TimeParseResult(isValid, delayMs, timestamp, error, originalInput) ==
  [isValid |-> isValid, delayMs |-> delayMs, timestamp |-> timestamp,
   error |-> error, originalInput |-> originalInput]

\* The result of a family whose pattern the input does not match
NoMatch(timeString, t) ==
  TimeParseResult(FALSE, Ms(0), DateOf(t), << >>, timeString)

Invalid(timeString, t, message) ==
  TimeParseResult(FALSE, Ms(0), DateOf(t), <<message>>, timeString)

UnitLetters == {"s", "m", "h", "d", "w"}

\* Milliseconds of a unit letter (the switch of parseRelativeTime)
UnitMs(unit) ==
  CASE unit = "s" -> 1000
    [] unit = "m" -> 60 * 1000
    [] unit = "h" -> 60 * 60 * 1000
    [] unit = "d" -> 24 * 60 * 60 * 1000
    [] unit = "w" -> 7 * 24 * 60 * 60 * 1000

\* A plausible slip: a week counted as one day.
RelativeDelayWeekAsDay(value, unit) ==
  IF unit = "w" THEN [day |-> value, ms |-> 0]
  ELSE [day |-> value \div (MsPerDay \div UnitMs(unit)),
        ms |-> (value % (MsPerDay \div UnitMs(unit))) * UnitMs(unit)]

\* value * (milliseconds of the unit), the switch of parseRelativeTime: a day
\* is a whole number of seconds, minutes and hours, and a week is 7 days
RelativeDelay(value, unit) ==
  IF unit = "w" THEN [day |-> value * 7, ms |-> 0]
  ELSE [day |-> value \div (MsPerDay \div UnitMs(unit)),
        ms |-> (value % (MsPerDay \div UnitMs(unit))) * UnitMs(unit)]

\* RELATIVE_TIME_REGEX = /^(\d+)([smhdw])$/i
MatchesRelative(s) ==
  /\ Len(s) >= 2
  /\ AllDigits(SubSeq(s, 1, Len(s) - 1))
  /\ toLowerChar(s[Len(s)]) \in UnitLetters

\* TimeParser.parseRelativeTime at time t
parseRelativeTime(timeString, t) ==
  IF ~MatchesRelative(timeString) THEN NoMatch(timeString, t)
  ELSE LET value == parseInt(SubSeq(timeString, 1, Len(timeString) - 1))
           unit == toLowerChar(timeString[Len(timeString)])
       IN  IF value <= 0
           THEN Invalid(timeString, t, "Time value must be greater than 0")
           ELSE TimeParseResult(TRUE, RelativeDelay(value, unit),
                                NewDate(Instant(DateOf(t).day + RelativeDelay(value, unit).day,
                                                DateOf(t).ms + RelativeDelay(value, unit).ms)),
                                << >>, timeString)

\* The part (\d{1,2}):(\d{2})(?:\s*(am|pm))?$ of ABSOLUTE_TIME_REGEX and of
\* DATE_TIME_REGEX, both with the flag i: whether s matches, and the groups
NoClock == [ok |-> FALSE, hour |-> 0, minute |-> 0, period |-> ""]

MatchClock(s) ==
  LET c == indexOf(s, ":")
  IN  IF /\ c \in {2, 3}
         /\ AllDigits(SubSeq(s, 1, c - 1))
         /\ Len(s) >= c + 2
         /\ AllDigits(SubSeq(s, c + 1, c + 2))
      THEN LET rest == SubSeq(s, c + 3, Len(s))
               period == toLowerCase(trimStart(rest))
               groups == [ok |-> TRUE, hour |-> parseInt(SubSeq(s, 1, c - 1)),
                          minute |-> parseInt(SubSeq(s, c + 1, c + 2)),
                          period |-> ""]
           IN  IF rest = << >> THEN groups
               ELSE IF period = <<"a", "m">> THEN [groups EXCEPT !.period = "am"]
               ELSE IF period = <<"p", "m">> THEN [groups EXCEPT !.period = "pm"]
               ELSE NoClock
      ELSE NoClock

\* A plausible slip: 12 am is not turned into hour 0.
Hour24NoMidnight(hour, period) ==
  IF period = "pm" /\ hour /= 12 THEN hour + 12 ELSE hour

\* "Handle 12-hour format" of parseAbsoluteTime and parseDateTime
Hour24(hour, period) ==
  IF period = "pm" /\ hour /= 12 THEN hour + 12
  ELSE IF period = "am" /\ hour = 12 THEN 0
  ELSE hour

\* TimeParser.parseAbsoluteTime at time t
parseAbsoluteTime(timeString, t) ==
  LET m == MatchClock(timeString)
      hour == Hour24(m.hour, m.period)
      today == [day |-> DateOf(t).day,
                ms |-> hour * 60 * 60 * 1000 + m.minute * 60 * 1000]
      targetTime == IF NotAfter(today, DateOf(t))
                    THEN [today EXCEPT !.day = @ + 1] ELSE today
  IN  IF ~m.ok THEN NoMatch(timeString, t)
      ELSE IF hour < 0 \/ hour > 23 \/ m.minute < 0 \/ m.minute > 59
           THEN Invalid(timeString, t, "Invalid time values")
           ELSE TimeParseResult(TRUE, MsBetween(targetTime, DateOf(t)),
                                targetTime, << >>, timeString)

\* DATE_TIME_REGEX =
\*   /^(\d{1,2})\/(\d{1,2})\/(\d{4})\s+(\d{1,2}):(\d{2})(?:\s*(am|pm))?$/i
NoDateTime ==
  [ok |-> FALSE, month |-> 0, day |-> 0, year |-> 0, clock |-> NoClock]

MatchDateTime(s) ==
  LET s1 == indexOf(s, "/")
      rest1 == SubSeq(s, s1 + 1, Len(s))
      s2 == indexOf(rest1, "/")
      rest2 == SubSeq(rest1, s2 + 1, Len(rest1))
      clock == MatchClock(trimStart(SubSeq(rest2, 5, Len(rest2))))
  IN  IF /\ s1 \in {2, 3} /\ AllDigits(SubSeq(s, 1, s1 - 1))
         /\ s2 \in {2, 3} /\ AllDigits(SubSeq(rest1, 1, s2 - 1))
         /\ Len(rest2) >= 5 /\ AllDigits(SubSeq(rest2, 1, 4))
         /\ IsSpace(rest2[5])
         /\ clock.ok
      THEN [ok |-> TRUE, month |-> parseInt(SubSeq(s, 1, s1 - 1)),
            day |-> parseInt(SubSeq(rest1, 1, s2 - 1)),
            year |-> parseInt(SubSeq(rest2, 1, 4)), clock |-> clock]
      ELSE NoDateTime

\* TimeParser.parseDateTime at time t (a Date built from integers is never
\* NaN, so 'Invalid date' is not returned)
parseDateTime(timeString, t) ==
  LET m == MatchDateTime(timeString)
      hour == Hour24(m.clock.hour, m.clock.period)
      targetTime == MakeDate(m.year, m.month - 1, m.day, hour, m.clock.minute)
  IN  IF ~m.ok THEN NoMatch(timeString, t)
      ELSE IF NotAfter(targetTime, DateOf(t))
           THEN Invalid(timeString, t, "Date is in the past")
           ELSE TimeParseResult(TRUE, MsBetween(targetTime, DateOf(t)),
                                targetTime, << >>, timeString)

\* UNIX_TIMESTAMP_REGEX = /^\d{10,13}$/
MatchesUnix(s) == AllDigits(s) /\ Len(s) >= 10 /\ Len(s) <= 13

\* A plausible slip: every timestamp is read as milliseconds.
UnixDateAlwaysMs(s) ==
  [day |-> parseInt(SubSeq(s, 1, Len(s) - 3)) \div 86400,
   ms |-> (parseInt(SubSeq(s, 1, Len(s) - 3)) % 86400) * 1000
            + parseInt(SubSeq(s, Len(s) - 2, Len(s)))]

\* The Date of a timestamp string: seconds when it has 10 digits and
\* milliseconds otherwise (the last three digits are then the milliseconds)
UnixDate(s) ==
  LET seconds == IF Len(s) = 10 THEN parseInt(s)
                 ELSE parseInt(SubSeq(s, 1, Len(s) - 3))
      millis == IF Len(s) = 10 THEN 0
                ELSE parseInt(SubSeq(s, Len(s) - 2, Len(s)))
  IN  [day |-> seconds \div 86400, ms |-> (seconds % 86400) * 1000 + millis]

\* TimeParser.parseUnixTimestamp at time t
parseUnixTimestamp(timeString, t) ==
  IF ~MatchesUnix(timeString) THEN NoMatch(timeString, t)
  ELSE IF NotAfter(UnixDate(timeString), DateOf(t))
       THEN Invalid(timeString, t, "Timestamp is in the past")
       ELSE TimeParseResult(TRUE, MsBetween(UnixDate(timeString), DateOf(t)),
                            UnixDate(timeString), << >>, timeString)

\* The formats parseNaturalLanguage hands to moment
MomentFormats ==
  <<
     <<"t", "o", "m", "o", "r", "r", "o", "w", " ", "h", ":", "m", "m",
       "a">>,
     <<"t", "o", "m", "o", "r", "r", "o", "w", " ", "h", ":", "m", "m",
       " ", "a">>,
     <<"t", "o", "m", "o", "r", "r", "o", "w", " ", "h", ":", "m", "m">>,
     <<"n", "e", "x", "t", " ", "w", "e", "e", "k", " ", "m", "o", "n",
       "d", "a", "y">>,
     <<"n", "e", "x", "t", " ", "m", "o", "n", "d", "a", "y">>,
     <<"n", "e", "x", "t", " ", "t", "u", "e", "s", "d", "a", "y">>,
     <<"n", "e", "x", "t", " ", "w", "e", "d", "n", "e", "s", "d", "a",
       "y">>,
     <<"n", "e", "x", "t", " ", "t", "h", "u", "r", "s", "d", "a", "y">>,
     <<"n", "e", "x", "t", " ", "f", "r", "i", "d", "a", "y">>,
     <<"n", "e", "x", "t", " ", "s", "a", "t", "u", "r", "d", "a", "y">>,
     <<"n", "e", "x", "t", " ", "s", "u", "n", "d", "a", "y">>,
     <<"m", "o", "n", "d", "a", "y">>,
     <<"t", "u", "e", "s", "d", "a", "y">>,
     <<"w", "e", "d", "n", "e", "s", "d", "a", "y">>,
     <<"t", "h", "u", "r", "s", "d", "a", "y">>,
     <<"f", "r", "i", "d", "a", "y">>,
     <<"s", "a", "t", "u", "r", "d", "a", "y">>,
     <<"s", "u", "n", "d", "a", "y">>
  >>

\* The input names a weekday: /^(monday|tuesday|...|sunday)$/i
WeekdayNames ==
  {
    <<"m", "o", "n", "d", "a", "y">>,
    <<"t", "u", "e", "s", "d", "a", "y">>,
    <<"w", "e", "d", "n", "e", "s", "d", "a", "y">>,
    <<"t", "h", "u", "r", "s", "d", "a", "y">>,
    <<"f", "r", "i", "d", "a", "y">>,
    <<"s", "a", "t", "u", "r", "d", "a", "y">>,
    <<"s", "u", "n", "d", "a", "y">>
  }

\* The letters of a format that moment reads as a token for a number of one
\* or two digits (minute, week, hour, weekday, second)
NumberTokens == {"m", "w", "h", "k", "e", "d", "s"}

\* Number of leading digits of s
RECURSIVE LeadingDigits(_)
LeadingDigits(s) ==
  IF s /= << >> /\ IsDigit(s[1]) THEN 1 + LeadingDigits(Tail(s)) ELSE 0

\* Length of the match of the meridiem pattern /[ap]\.?m?\.?/i at the head
\* of s, 0 when it does not match there
MeridiemLength(s) ==
  IF s = << >> \/ toLowerChar(s[1]) \notin {"a", "p"} THEN 0
  ELSE LET dot1 == IF Len(s) >= 2 /\ s[2] = "." THEN 1 ELSE 0
           m == IF Len(s) >= 2 + dot1 /\ toLowerChar(s[2 + dot1]) = "m"
                THEN 1 ELSE 0
           dot2 == IF Len(s) >= 2 + dot1 + m /\ s[2 + dot1 + m] = "."
                   THEN 1 ELSE 0
       IN  1 + dot1 + m + dot2

\* Strict parsing of moment: the input matches the format when every token
\* and every other character of the format, from left to right, matches at
\* the place the previous one ended and no character is left over. A number
\* token takes one or two digits (as many as there are), "mm" takes two,
\* "y" and "x" take all the digits ("x" after an optional sign), "a" takes
\* the meridiem; any other character stands for itself.
RECURSIVE MatchesFormat(_, _)
MatchesFormat(f, s) ==
  IF f = << >> THEN s = << >>
  ELSE IF f[1] = "m" /\ Len(f) >= 2 /\ f[2] = "m"
       THEN /\ LeadingDigits(s) >= 2
            /\ MatchesFormat(SubSeq(f, 3, Len(f)), SubSeq(s, 3, Len(s)))
  ELSE IF f[1] \in NumberTokens
       THEN /\ LeadingDigits(s) >= 1
            /\ MatchesFormat(Tail(f),
                             SubSeq(s, Min(2, LeadingDigits(s)) + 1, Len(s)))
  ELSE IF f[1] = "y"
       THEN /\ LeadingDigits(s) >= 1
            /\ MatchesFormat(Tail(f), SubSeq(s, LeadingDigits(s) + 1, Len(s)))
  ELSE IF f[1] = "x"
       THEN LET sign == IF s /= << >> /\ s[1] \in {"+", "-"} THEN 1 ELSE 0
                rest == SubSeq(s, sign + 1, Len(s))
            IN  /\ LeadingDigits(rest) >= 1
                /\ MatchesFormat(Tail(f),
                                 SubSeq(rest, LeadingDigits(rest) + 1, Len(rest)))
  ELSE IF f[1] = "a"
       THEN /\ MeridiemLength(s) >= 1
            /\ MatchesFormat(Tail(f), SubSeq(s, MeridiemLength(s) + 1, Len(s)))
  ELSE /\ s /= << >> /\ s[1] = f[1]
       /\ MatchesFormat(Tail(f), Tail(s))

MatchesMoment(s) ==
  \E i \in 1..Len(MomentFormats) : MatchesFormat(MomentFormats[i], s)

\* What moment(input, formats, true) may give for an input that matches a
\* format: an invalid moment, or the instant it resolved (before, at or
\* after the time of the call)
MomentResults(t) ==
  {[isValid |-> FALSE, date |-> DateOf(t)]} \cup
  {[isValid |-> TRUE, date |-> d] :
     d \in {DateOf(t - 60 * 60 * 1000), DateOf(t), DateOf(t + 60 * 60 * 1000)}}

\* TimeParser.parseNaturalLanguage at time t, `parsed` being what moment
\* gives for an input that matches one of the formats
parseNaturalLanguage(timeString, t, parsed) ==
  LET input == toLowerCase(timeString)
      date == IF /\ parsed.date /= DateOf(t) /\ NotAfter(parsed.date, DateOf(t))
                 /\ input \in WeekdayNames
              THEN [parsed.date EXCEPT !.day = @ + 7] ELSE parsed.date
  IN  IF ~MatchesMoment(input) \/ ~parsed.isValid THEN NoMatch(timeString, t)
      ELSE IF NotAfter(date, DateOf(t))
           THEN Invalid(timeString, t, "Parsed time is in the past")
           ELSE TimeParseResult(TRUE, MsBetween(date, DateOf(t)), date, << >>,
                                timeString)

\* The element of a set of one element
Only(S) == CHOOSE x \in S : TRUE

\* The first valid result of a sequence of results, `otherwise` when none is
FirstValid(results, otherwise) ==
  IF \E i \in 1..Len(results) : results[i].isValid
  THEN results[CHOOSE i \in 1..Len(results) :
                 /\ results[i].isValid
                 /\ \A j \in 1..(i - 1) : ~results[j].isValid]
  ELSE otherwise

\* The families of parseTime in the order it tries them, for the trimmed and
\* lower-cased input
FamilyResults(input, t, parsed) ==
  <<parseRelativeTime(input, t), parseAbsoluteTime(input, t),
    parseDateTime(input, t), parseUnixTimestamp(input, t),
    parseNaturalLanguage(input, t, parsed)>>

\* A plausible slip: the last result has no error, like the result of a
\* family that does not match.
UnableToParseNoReason(timeString, t) ==
  TimeParseResult(FALSE, Ms(0), DateOf(t), << >>, timeString)

\* The result parseTime gives when no family gives a valid one
UnableToParse(timeString, t) ==
  TimeParseResult(FALSE, Ms(0), DateOf(t),
                  <<"Unable to parse time format: ", timeString,
                    ". Supported formats: 6h, 45m, 9:00am, 12/25/2024 9:00am, 1640995200, or tomorrow 9am">>,
                  timeString)

\* TimeParser.parseTime at time t: the first family that gives a valid
\* result decides; when none does the format is reported as not recognised.
parseTime(timeString, t, parsed) ==
  Only({FirstValid(results, UnableToParse(timeString, t)) :
          results \in {FamilyResults(input, t, parsed) :
                         input \in {toLowerCase(trim(timeString))}}})

\* The values maxReminderDelayDays may take: z.number().min(1).max(365)
ConfigMaxDays == 1..365

\* A plausible slip: the maximum itself is rejected (>= for >).
ExceedsDaysInclusive(delayMs, maxDays) == delayMs.day >= maxDays

\* delayMs > maxDays * 24 * 60 * 60 * 1000, compared by whole days and the
\* rest of a day
ExceedsDays(delayMs, maxDays) ==
  \/ delayMs.day > maxDays
  \/ delayMs.day = maxDays /\ delayMs.ms > 0

\* TimeParser.validateDelay
validateDelay(delayMs, maxDays) ==
  IF NotAfter(delayMs, Ms(0))
  THEN [isValid |-> FALSE, error |-> "Delay must be greater than 0"]
  ELSE IF ExceedsDays(delayMs, maxDays)
       THEN [isValid |-> FALSE,
             error |-> "Delay cannot exceed " \o ToString(maxDays) \o " days"]
       ELSE [isValid |-> TRUE, error |-> ""]

\* A plausible slip: the smaller unit is shown even when it is zero.
formatDelayAllParts(delayMs) ==
  IF NotAfter(delayMs, Ms(999)) THEN ToString(Millis(delayMs)) \o "ms"
  ELSE IF delayMs.day > 0
  THEN ToString(delayMs.day) \o "d "
         \o ToString(delayMs.ms \div (60 * 60 * 1000)) \o "h"
  ELSE LET seconds == delayMs.ms \div 1000
           minutes == seconds \div 60
           hours == minutes \div 60
       IN  IF seconds < 60 THEN ToString(seconds) \o "s"
           ELSE IF minutes < 60
           THEN ToString(minutes) \o "m " \o ToString(seconds % 60) \o "s"
           ELSE ToString(hours) \o "h " \o ToString(minutes % 60) \o "m"

\* TimeParser.formatDelay: the milliseconds below one second, the seconds
\* below one minute, otherwise the largest unit and, when it is not zero, the
\* next smaller one (days = floor(hours / 24) is the whole days of the delay,
\* remainingHours the whole hours of the rest).
formatDelay(delayMs) ==
  IF NotAfter(delayMs, Ms(999)) THEN ToString(Millis(delayMs)) \o "ms"
  ELSE IF delayMs.day > 0
  THEN LET remainingHours == delayMs.ms \div (60 * 60 * 1000)
       IN  IF remainingHours > 0
           THEN ToString(delayMs.day) \o "d " \o ToString(remainingHours) \o "h"
           ELSE ToString(delayMs.day) \o "d"
  ELSE LET seconds == delayMs.ms \div 1000
           minutes == seconds \div 60
           hours == minutes \div 60
       IN  IF seconds < 60 THEN ToString(seconds) \o "s"
           ELSE IF minutes < 60
           THEN IF seconds % 60 > 0
                THEN ToString(minutes) \o "m " \o ToString(seconds % 60) \o "s"
                ELSE ToString(minutes) \o "m"
           ELSE IF minutes % 60 > 0
                THEN ToString(hours) \o "h " \o ToString(minutes % 60) \o "m"
                ELSE ToString(hours) \o "h"

\* ---------------------------------------------------- GoogleCalendarService
\* The events the calendar may hold: one event "e1" that starts 5, 10 or 20
\* minutes or close to 24 hours after the service is started, or has started
\* already; an all-day event has no start.dateTime.
EventLength == 30 * 60 * 1000
EventStarts ==
  {0 - SyncPeriod, SyncPeriod, ReminderAdvance, 2 * ReminderAdvance,
   FetchWindow - SyncPeriod, FetchWindow + SyncPeriod}
CandidateEvents ==
  {[id |-> "e1", summary |-> "standup", location |-> "room 1",
    startTime |-> t, endTime |-> t + EventLength, hasDateTime |-> b] :
     t \in EventStarts, b \in BOOLEAN}

\* A plausible slip: events.list is asked for every event that has not ended.
fetchEventsNoWindow(cal, t) ==
  {e \in cal.events : e.hasDateTime /\ e.endTime > t}

\* GoogleCalendarService.fetchUpcomingEvents at time t: events.list returns
\* the events that end after timeMin and start before timeMax; the items
\* without start.dateTime are left out.
fetchUpcomingEvents(cal, t) ==
  {e \in cal.events :
     e.hasDateTime /\ e.endTime > t /\ e.startTime < t + FetchWindow}

\* GoogleCalendarService.createReminderMessage (the clock time of the start
\* is left as the number of milliseconds)
createReminderMessage(event) ==
  "Reminder: You have " \o event.summary \o " starting at "
    \o ToString(event.startTime) \o " at " \o event.location

\* GoogleCalendarService.scheduleEventReminder: the queue afterwards
scheduleEventReminder(q, event, delayMs, t) ==
  QueueAdd(q, RemindId("calendar-" \o event.id, t), "reminder",
           [message |-> createReminderMessage(event),
            userId |-> "google-calendar", channelId |-> "calendar-system",
            messageId |-> "calendar-" \o event.id,
            priority |-> CalendarPriority, createdAt |-> t],
           delayMs, CalendarPriority, DefaultAttempts, t)

\* A plausible slip: the reminder is scheduled for the start of the event.
processCalendarEventNoAdvance(q, event, t) ==
  LET timeUntilEvent == event.startTime - t
  IN  IF timeUntilEvent <= 0 THEN q
      ELSE scheduleEventReminder(q, event, timeUntilEvent, t)

\* GoogleCalendarService.processCalendarEvent at time t: the queue afterwards
processCalendarEvent(q, event, t) ==
  LET timeUntilEvent == event.startTime - t
      reminderTime == timeUntilEvent - ReminderAdvance
  IN  IF timeUntilEvent <= 0 THEN q
      ELSE IF reminderTime > 0
           THEN scheduleEventReminder(q, event, reminderTime, t)
           ELSE IF timeUntilEvent <= ReminderAdvance /\ timeUntilEvent > 0
                THEN scheduleEventReminder(q, event, 0, t)
                ELSE q

\* The loop of syncCalendarEvents over the events, earliest start first
RECURSIVE processEvents(_, _, _)
processEvents(q, events, t) ==
  IF events = {} THEN q
  ELSE LET e == CHOOSE x \in events :
                  \A y \in events : x.startTime <= y.startTime
       IN  processEvents(processCalendarEvent(q, e, t), events \ {e}, t)

\* GoogleCalendarService.syncCalendarEvents at time t: the queue afterwards;
\* when the fetch throws nothing is scheduled.
syncCalendarEvents(q, cal, t, fetched) ==
  IF fetched THEN processEvents(q, fetchUpcomingEvents(cal, t), t) ELSE q

\* GoogleCalendarService.start: testConnection returns true or false and
\* never throws, so the service is marked running, the periodic sync is
\* started and the initial sync runs; when the initial sync throws, start
\* throws with the service still marked running and the interval still set.
CalendarStart(connected, fetched) ==
  /\ ~calendar.isRunning
  /\ calendar' = [calendar EXCEPT
                    !.isRunning = TRUE, !.syncInterval = TRUE,
                    !.connection = IF connected THEN "ok" ELSE "failed",
                    !.start = IF fetched THEN "returned" ELSE "threw"]
  /\ LET q2 == syncCalendarEvents(jobs, calendar, now, fetched)
     IN  /\ jobs' = q2
         /\ hist' = HistAfterAdd(hist, jobs, q2)
  /\ UNCHANGED <<now, nForce, nFaults, call, worker>>

\* The interval of startPeriodicSync elapses and its callback runs a sync.
PeriodicSync(fetched) ==
  /\ calendar.syncInterval
  /\ now < MaxSyncs * SyncPeriod
  /\ now' = now + SyncPeriod
  /\ LET q2 == syncCalendarEvents(jobs, calendar, now', fetched)
     IN  /\ jobs' = q2
         /\ hist' = HistAfterAdd(hist, jobs, q2)
  /\ UNCHANGED <<nForce, nFaults, calendar, call, worker>>

\* The service is constructed for a calendar with no event or with one.
InitCalendar ==
  /\ now = 0
  /\ jobs = << >>
  /\ hist = << >>
  /\ nForce = 0 /\ nFaults = 0
  /\ \E events \in {{}} \cup {{e} : e \in CandidateEvents} :
       calendar = [NoCalendar EXCEPT !.events = events]
  /\ call = NoCall /\ worker = StartedWorker

NextCalendar ==
  \/ \E connected, fetched \in BOOLEAN : CalendarStart(connected, fetched)
  \/ \E fetched \in BOOLEAN : PeriodicSync(fetched)
  \/ \E w \in Workers, id \in JobIds : Claim(w, id)
  \/ \E id \in JobIds : Process(id)
  \/ \E id \in JobIds : Complete(id)

SpecCalendar == InitCalendar /\ [][NextCalendar]_vars

\* ------------------------------------------------------ TimeParser.parseTime
\* The strings handed to parseTime
TimeStrings ==
  {
    <<"0", "h">>,
    <<"0", "0", "m">>,
    <<"0", "w">>,
    <<"6", "h">>,
    <<"2", "h">>,
    <<"4", "5", "M">>,
    <<"2", "d">>,
    <<"1", "w">>,
    <<" ", "6", "h", " ">>,
    <<"8", "d">>,
    <<"2", "w">>,
    <<"i", "n", "v", "a", "l", "i", "d">>,
    << >>,
    <<" ", " ">>,
    <<"6", "x">>,
    <<"h">>,
    <<"9", ":", "0", "0", "a", "m">>,
    <<"1", "4", ":", "3", "0">>,
    <<"2", "5", ":", "0", "0">>,
    <<"1", "2", ":", "3", "0", " ", "P", "M">>,
    <<"0", "1", "/", "1", "6", "/", "2", "0", "2", "4", " ", "9", ":", "0", "0", "a", "m">>,
    <<"1", "2", "/", "2", "5", "/", "2", "0", "2", "3", " ", "2", ":", "0", "0", "p", "m">>,
    <<"1", "7", "0", "5", "3", "1", "2", "8", "0", "1">>,
    <<"1", "7", "0", "5", "3", "1", "2", "8", "0", "0">>,
    <<"t", "o", "m", "o", "r", "r", "o", "w", " ", "9", "a", "m">>,
    <<"m", "o", "n", "d", "a", "y">>,
    <<"f", "r", "i", "5", "p", "m", "2", "0", "2", "4">>,
    <<"3", "0", "s">>,
    <<"7", "S">>,
    <<"1", "W">>,
    <<"1", "0", "0", "0", "0", "0", "0", "0", "0", "d">>,
    <<"2", "0", "0", "0", "0", "0", "0", "0", "w">>,
    <<"1", "2", ":", "0", "0", "a", "m">>,
    <<"1", "2", ":", "3", "0", "p", "m">>,
    <<"2", ":", "3", "0", "p", "m">>,
    <<"1", "0", ":", "0", "0">>,
    <<"0", ":", "0", "0">>,
    <<"2", "3", ":", "5", "9">>,
    <<"9", ":", "7", "5">>,
    <<"1", "3", ":", "0", "0", "p", "m">>,
    <<"1", "2", ":", "6", "0", "a", "m">>,
    <<"1", "3", "/", "3", "2", "/", "2", "0", "2", "4", " ", "2", "5", ":",
      "7", "0">>,
    <<"0", "2", "/", "3", "0", "/", "2", "0", "2", "4", " ", "9", ":", "0",
      "0", "a", "m">>,
    <<"1", "2", "/", "2", "5", "/", "2", "0", "2", "4", " ", "9", ":", "0",
      "0", "a", "m">>,
    <<"1", "/", "1", "/", "2", "0", "2", "0", " ", "9", ":", "0", "0", "a",
      "m">>,
    <<"0", "1", "/", "1", "5", "/", "2", "0", "2", "4", " ", "1", "0", ":",
      "0", "0">>,
    <<"1", "7", "0", "5", "3", "1", "2", "8", "0", "0", "0", "0", "0">>,
    <<"1", "7", "0", "5", "3", "1", "2", "8", "0", "0", "0", "0", "1">>,
    <<"2", "0", "0", "0", "0", "0", "0", "0", "0", "0", "0", "0", "0">>,
    <<"2", "0", "0", "0", "0", "0", "0", "0", "0", "0">>,
    <<"s", "u", "n", "d", "a", "y">>,
    <<"F", "r", "i", "d", "a", "y">>,
    <<"t", "o", "m", "o", "r", "r", "o", "w", " ", "9", ":", "0", "0", "a",
      "m">>,
    <<"t", "o", "5", "o", "r", "r", "o", "5", " ", "9", ":", "0", "0", "a",
      "m">>,
    <<"t", "o", "m", "o", "r", "r", "o", "w", " ", "9">>
  }

\* The values of maxReminderDelayDays the bot is run with
ConfigDays == {1, 7, MaxReminderDelayDays}

\* The delays handed to validateDelay
DelaySamples ==
  {Ms(0), Ms(0 - 1000), Ms(1), Ms(MsPerDay), [day |-> 1, ms |-> 1],
   [day |-> 7, ms |-> 0], [day |-> MaxReminderDelayDays, ms |-> 0],
   [day |-> MaxReminderDelayDays, ms |-> 1], [day |-> MaxDateDay, ms |-> 0]}

\* The delays handed to formatDelay: those of the repository's tests, and
\* some with two and with three units that are not zero
FormatSamples ==
  {Ms(0), Ms(500), Ms(999), Ms(1000), Ms(30000), Ms(120000), Ms(90000),
   Ms(7200000), Ms(7323000), Ms(7203000), Ms(3600000 * 23 + 59 * 60000),
   Ms(172800000), [day |-> 1, ms |-> 2 * 3600000 + 3 * 60000],
   [day |-> MaxReminderDelayDays, ms |-> 0]}

\* The times of day (on day EpochDay) at which parseTime is called
ParseTimes ==
  {0, 9 * 60 * 60 * 1000, 10 * 60 * 60 * 1000, 14 * 60 * 60 * 1000,
   23 * 60 * 60 * 1000}

InitParse ==
  /\ now \in ParseTimes
  /\ jobs = << >>
  /\ hist = << >>
  /\ nForce = 0 /\ nFaults = 0
  /\ calendar = NoCalendar /\ call = NoCall /\ worker = StartedWorker

\* A caller calls TimeParser.parseTime and gets its result.
ParseTime(timeString, parsed) ==
  /\ call' = [op |-> "parseTime", input |-> timeString,
              result |-> parseTime(timeString, now, parsed)]
  /\ UNCHANGED <<now, jobs, hist, nForce, nFaults, calendar, worker>>

\* A caller calls TimeParser.validateDelay and gets its result.
ValidateDelay(delayMs, maxDays) ==
  /\ call' = [op |-> "validateDelay", delayMs |-> delayMs,
              maxDays |-> maxDays, result |-> validateDelay(delayMs, maxDays)]
  /\ UNCHANGED <<now, jobs, hist, nForce, nFaults, calendar, worker>>

\* A caller formats the delay of the valid result parseTime has just given
\* it, as handleRemindCommand does for its confirmation.
FormatParsed ==
  /\ call.op = "parseTime" /\ call.result.isValid
  /\ call' = [op |-> "formatDelay", input |-> call.input,
              delayMs |-> call.result.delayMs,
              result |-> formatDelay(call.result.delayMs)]
  /\ UNCHANGED <<now, jobs, hist, nForce, nFaults, calendar, worker>>

\* A caller calls TimeParser.formatDelay with a delay of its own.
FormatDelay(delayMs) ==
  /\ call' = [op |-> "formatDelay", input |-> << >>, delayMs |-> delayMs,
              result |-> formatDelay(delayMs)]
  /\ UNCHANGED <<now, jobs, hist, nForce, nFaults, calendar, worker>>

NextParse ==
  \/ \E timeString \in TimeStrings, parsed \in MomentResults(now) :
       ParseTime(timeString, parsed)
  \/ FormatParsed
  \/ \E delayMs \in FormatSamples : FormatDelay(delayMs)
  \/ \E delayMs \in DelaySamples, maxDays \in ConfigDays :
       ValidateDelay(delayMs, maxDays)

SpecParse == InitParse /\ [][NextParse]_vars

\* ----------------------------------------------- DiscordBot, the ?remind command
\* Position of the first character of s from position k on that is not white
\* space, 0 when there is none
FirstNonSpace(s, k) ==
  IF \E j \in k..Len(s) : ~IsSpace(s[j])
  THEN CHOOSE j \in k..Len(s) :
         ~IsSpace(s[j]) /\ \A i \in k..(j - 1) : IsSpace(s[i])
  ELSE 0

\* Position of the last character of the run of \S that starts at j
RunEnd(s, j) ==
  CHOOSE k \in j..Len(s) :
    /\ \A i \in j..k : ~IsSpace(s[i])
    /\ k = Len(s) \/ IsSpace(s[k + 1])

\* The places where /-t\s+(\S+)/ matches in content
TimeFlagStarts(content) ==
  {i \in 1..Len(content) :
     /\ i + 3 <= Len(content)
     /\ content[i] = "-" /\ content[i + 1] = "t" /\ IsSpace(content[i + 2])
     /\ FirstNonSpace(content, i + 3) > 0}

\* The command in content when /-t\s+(\S+)/ matches at position i: the time is
\* the run of \S, the message is what is left once the match is taken out
CommandAt(content, i, t, parsed) ==
  LET j == FirstNonSpace(content, i + 3)
      k == RunEnd(content, j)
      message == trim(SubSeq(content, 1, i - 1)
                        \o SubSeq(content, k + 1, Len(content)))
  IN  IF message = << >>
      THEN [message |-> << >>, delayMs |-> Ms(0), timestamp |-> DateOf(t),
            isValid |-> FALSE, error |-> <<"Missing reminder message.">>]
      ELSE Only({IF ~timeResult.isValid
                 THEN [message |-> message, delayMs |-> Ms(0),
                       timestamp |-> DateOf(t), isValid |-> FALSE,
                       error |-> timeResult.error]
                 ELSE [message |-> message, delayMs |-> timeResult.delayMs,
                       timestamp |-> timeResult.timestamp, isValid |-> TRUE,
                       error |-> << >>] :
                 timeResult \in {parseTime(timeString, t, parsed) :
                                  timeString \in {SubSeq(content, j, k)}}})

\* DiscordBot.parseReminderCommand at time t
parseReminderCommand(content, t, parsed) ==
  IF TimeFlagStarts(content) = {}
  THEN [message |-> content, delayMs |-> Ms(0), timestamp |-> DateOf(t),
        isValid |-> FALSE,
        error |-> <<"Missing time parameter. Use -t <time> to specify when the reminder should fire.">>]
  ELSE Only({CommandAt(content, i, t, parsed) :
                i \in {x \in TimeFlagStarts(content) :
                         \A y \in TimeFlagStarts(content) : x <= y}})

\* What handleRemindCommand has done: the queue afterwards, what it sent to
\* the channel, and the results of parsing and of validating the delay
RemindOutcome(q, reply, command, validation) ==
  [queue |-> q, reply |-> reply, command |-> command, validation |-> validation]

\* The text of a "?remind" message parsed at time t
RemindCommands(content, t, parsed) ==
  {parseReminderCommand(text, t, parsed) : text \in {trim(content)}}

\* addReminder as handleRemindCommand calls it, and the confirmation sent
RemindAdded(q, command, validation, message, t) ==
  RemindOutcome(
    QueueAdd(q, RemindId(message.id, t), "reminder",
             [message |-> command.message, userId |-> message.authorId,
              channelId |-> message.channelId, messageId |-> message.id,
              priority |-> 0, createdAt |-> t],
             Millis(command.delayMs), 0, DefaultAttempts, t),
    <<"Reminder Set!", RemindId(message.id, t)>>, command, validation)

\* A plausible slip: the delay is not validated.
handleRemindCommandUnvalidated(q, content, message, maxDays, t, parsed, storeUp) ==
  Only({LET validation == [isValid |-> TRUE, error |-> ""]
        IN  IF trim(content) = << >>
            THEN RemindOutcome(q, <<"Please provide a reminder message and time. Use ?help for examples.">>,
                               command, validation)
            ELSE IF ~command.isValid
            THEN RemindOutcome(q, command.error, command, validation)
            ELSE IF ~storeUp
            THEN RemindOutcome(q, <<"Failed to schedule your reminder. Please try again.">>,
                               command, validation)
            ELSE RemindAdded(q, command, validation, message, t) :
        command \in RemindCommands(content, t, parsed)})

\* DiscordBot.handleRemindCommand for the text that follows "?remind", at
\* time t: an error is sent and nothing is added when there is no text, when
\* the command does not parse, when the delay is not valid or when
\* addReminder throws (the store is down); otherwise the job is added.
handleRemindCommand(q, content, message, maxDays, t, parsed, storeUp) ==
  Only({LET validation == validateDelay(command.delayMs, maxDays)
        IN  IF trim(content) = << >>
            THEN RemindOutcome(q, <<"Please provide a reminder message and time. Use ?help for examples.">>,
                               command, validation)
            ELSE IF ~command.isValid
            THEN RemindOutcome(q, command.error, command, validation)
            ELSE IF ~validation.isValid
            THEN RemindOutcome(q, <<validation.error>>, command, validation)
            ELSE IF ~storeUp
            THEN RemindOutcome(q, <<"Failed to schedule your reminder. Please try again.">>,
                               command, validation)
            ELSE RemindAdded(q, command, validation, message, t) :
        command \in RemindCommands(content, t, parsed)})

\* The texts that follow "?remind" in the messages the bot receives
RemindContents ==
  {
    <<"c", "a", "l", "l", " ", "m", "u", "m", " ", "-", "t", " ", "6", "h">>,
    <<"-", "t", " ", "4", "5", "m", " ", "c", "a", "l", "l", " ", "m", "u",
      "m">>,
    <<"c", "a", "l", "l", " ", "m", "u", "m", " ", "-", "t", " ", "0", "h">>,
    <<"c", "a", "l", "l", " ", "m", "u", "m", " ", "-", "t", " ", "8", "d">>,
    <<"c", "a", "l", "l", " ", "m", "u", "m", " ", "-", "t", " ", "2", "w">>,
    <<"c", "a", "l", "l", " ", "m", "u", "m", " ", "-", "t", " ", "1", "d">>,
    <<"c", "a", "l", "l", " ", "m", "u", "m">>,
    <<"-", "t", " ", "6", "h">>,
    << >>,
    <<"c", "a", "l", "l", " ", "m", "u", "m", " ", "-", "t">>,
    <<"c", "a", "l", "l", " ", "m", "u", "m", " ", "-", "t", " ", "9", ":",
      "0", "0", "a", "m">>,
    <<"c", "a", "l", "l", " ", "m", "u", "m", " ", "-", "t", " ", "2", "5",
      ":", "0", "0">>,
    <<"c", "a", "l", "l", " ", "m", "u", "m", " ", "-", "t", " ", "s", "o",
      "o", "n">>,
    <<"l", "u", "n", "c", "h", " ", "-", "t", " ", "0", "1", "/", "1", "6",
      "/", "2", "0", "2", "4", " ", "2", ":", "0", "0", "p", "m">>,
    <<"c", "a", "l", "l", " ", "-", "t", " ", " ", "5", "m", " ", " ", "m",
      "u", "m", " ", "-", "t", " ", "6", "h">>,
    <<"c", "a", "l", "l", " ", "m", "u", "m", " ", "-", "t", " ", "1", "7",
      "0", "5", "3", "1", "2", "8", "0", "1">>
  }

\* The Discord messages: their id, author and channel
DiscordMessages ==
  {[id |-> k, authorId |-> "u1", channelId |-> "c1"] : k \in MessageIds}

\* The bot receives a "?remind" message; Discord delivers a message once.
HandleRemindCommand(content, message, maxDays, parsed, storeUp) ==
  /\ ~(call.op = "remind" /\ call.message = message)
  /\ \E o \in {handleRemindCommand(jobs, content, message, maxDays, now,
                                     parsed, storeUp)} :
       /\ jobs' = o.queue
       /\ hist' = HistAfterAdd(hist, jobs, o.queue)
       /\ call' = [op |-> "remind", message |-> message,
                   content |-> content, maxDays |-> maxDays,
                   reply |-> o.reply, command |-> o.command,
                   validation |-> o.validation]
  /\ UNCHANGED <<now, nForce, nFaults, calendar, worker>>

NextRemind ==
  \E content \in RemindContents, message \in DiscordMessages,
     maxDays \in ConfigDays, parsed \in MomentResults(now),
     storeUp \in BOOLEAN :
    HandleRemindCommand(content, message, maxDays, parsed, storeUp)

SpecRemind == InitParse /\ [][NextRemind]_vars

\* ------------------------------------- ReminderQueue, called by its clients
\* What a call of a method gave its caller: the value it returned, or that
\* it threw
Returned(value) == [thrown |-> FALSE, returned |-> value]
Thrown == [thrown |-> TRUE, returned |-> "error"]

\* ReminderQueue.addReminder with the store up or down: the queue afterwards
\* and the job it returned (Queue.add gives a job for an id that is already
\* present too); when the store is down Queue.add throws and so does it.
addReminder(q, message, delayMs, caller, messageId, t, storeUp) ==
  LET jobData == [message |-> message, userId |-> caller.userId,
                  channelId |-> caller.channelId, messageId |-> messageId,
                  priority |-> caller.priority, createdAt |-> t]
  IN  IF storeUp
      THEN [queue |-> QueueAdd(q, RemindId(messageId, t), "reminder", jobData,
                               delayMs, caller.priority, DefaultAttempts, t),
            outcome |-> Returned(RemindId(messageId, t))]
      ELSE [queue |-> q, outcome |-> Thrown]

\* ReminderQueue.cancelReminder with the store up or down: when the store is
\* down getJob throws and false is returned.
cancelReminderCall(q, id, storeUp) ==
  IF storeUp
  THEN [queue |-> cancelReminder(q, id).queue,
        outcome |-> Returned(cancelReminder(q, id).result)]
  ELSE [queue |-> q, outcome |-> Returned(FALSE)]

\* ReminderQueue.getUserReminders with the store up or down: the jobs of the
\* wait list, the delayed set and the active list whose data.userId is
\* userId (a job added with a priority is in the prioritized set, which is
\* not asked for); when the store is down getJobs throws and [] is returned.
getUserReminders(q, userId, storeUp) ==
  IF storeUp
  THEN Returned({i \in DOMAIN q :
                   /\ q[i].state \in {"waiting", "delayed", "active"}
                   /\ q[i].data.userId = userId})
  ELSE Returned({})

UserIds == {c.userId : c \in Callers}

\* A client calls addReminder.
CallAddReminder(message, delayMs, caller, messageId, storeUp) ==
  /\ LET a == addReminder(jobs, message, delayMs, caller, messageId, now,
                          storeUp)
     IN  /\ jobs' = a.queue
         /\ hist' = HistAfterAdd(hist, jobs, a.queue)
         /\ call' = [op |-> "addReminder", storeUp |-> storeUp,
                     args |-> <<message, delayMs, caller, messageId>>,
                     outcome |-> a.outcome]
  /\ UNCHANGED <<now, nForce, nFaults, calendar, worker>>

\* A client calls cancelReminder.
CallCancelReminder(id, storeUp) ==
  /\ LET c == cancelReminderCall(jobs, id, storeUp)
     IN  /\ jobs' = c.queue
         /\ hist' = IF c.outcome.returned
                    THEN [hist EXCEPT ![id].cancelled = TRUE] ELSE hist
         /\ call' = [op |-> "cancelReminder", storeUp |-> storeUp,
                     args |-> <<id>>, outcome |-> c.outcome]
  /\ UNCHANGED <<now, nForce, nFaults, calendar, worker>>

\* A client calls getUserReminders.
CallGetUserReminders(userId, storeUp) ==
  /\ call' = [op |-> "getUserReminders", storeUp |-> storeUp,
              args |-> <<userId>>,
              outcome |-> getUserReminders(jobs, userId, storeUp)]
  /\ UNCHANGED <<now, jobs, hist, nForce, nFaults, calendar, worker>>

\* The queue, its workers and the clients of ReminderQueue, with a store that
\* may be down when a client calls.
NextStore ==
  \/ \E m \in Messages, d \in Delays, c \in Callers, k \in MessageIds,
        storeUp \in BOOLEAN : CallAddReminder(m, d, c, k, storeUp)
  \/ \E id \in JobIds \cup {UnknownId}, storeUp \in BOOLEAN :
       CallCancelReminder(id, storeUp)
  \/ \E u \in UserIds, storeUp \in BOOLEAN : CallGetUserReminders(u, storeUp)
  \/ \E w \in Workers, id \in JobIds : Claim(w, id)
  \/ \E id \in JobIds : Process(id)
  \/ \E id \in JobIds : Complete(id)

SpecStore == Init /\ [][NextStore]_vars

\* ----------------------------------------------- DiscordBot, the ?cancel command
\* The text that follows "?cancel", trimmed: nothing, or a job id
NoJobId == [kind |-> "none", key |-> "", at |-> 0, retryAt |-> -1]

\* DiscordBot.handleCancelCommand for the trimmed text that follows
\* "?cancel": with no text an error is sent; otherwise the text is handed to
\* cancelReminder as the job id, whoever the author of the message is, and
\* the reply tells whether a job was removed.
handleCancelCommand(q, content, message, storeUp) ==
  IF content = NoJobId
  THEN [queue |-> q, cancelled |-> FALSE,
        reply |-> "Please provide a job ID to cancel."]
  ELSE LET c == cancelReminderCall(q, content, storeUp)
       IN  [queue |-> c.queue, cancelled |-> c.outcome.returned,
            reply |-> IF c.outcome.returned THEN "Reminder Cancelled"
                      ELSE "No reminder found with ID"]

\* The messages two users of the bot send: a message has one id and one
\* author
RemindMessages ==
  {[id |-> "m1", authorId |-> "u1", channelId |-> "c1"],
   [id |-> "m2", authorId |-> "u2", channelId |-> "c1"]}
CancelMessages ==
  {[id |-> "m3", authorId |-> "u1", channelId |-> "c1"],
   [id |-> "m4", authorId |-> "u2", channelId |-> "c1"]}

\* The texts that follow "?remind" here: a reminder due one tick from now
CancelRemindContents ==
  {<<"c", "a", "l", "l", " ", "m", "u", "m", " ", "-", "t", " ", "1", "0",
     "m">>}

\* What moment gives at time t for a text that matches none of the formats
NoMoment(t) == [isValid |-> FALSE, date |-> DateOf(t)]

\* The bot receives a "?cancel" message.
HandleCancelCommand(content, message, storeUp) ==
  /\ LET o == handleCancelCommand(jobs, content, message, storeUp)
     IN  /\ jobs' = o.queue
         /\ hist' = IF o.cancelled
                    THEN [hist EXCEPT ![content].cancelled = TRUE] ELSE hist
         /\ call' = [op |-> "cancel", message |-> message,
                     content |-> content, storeUp |-> storeUp,
                     cancelled |-> o.cancelled, reply |-> o.reply]
  /\ UNCHANGED <<now, nForce, nFaults, calendar, worker>>

\* Two users set reminders and cancel jobs by id while the clock advances
\* and the call worker fetches the jobs that are due.
NextCancel ==
  \/ \E content \in CancelRemindContents, message \in RemindMessages,
        storeUp \in BOOLEAN :
       HandleRemindCommand(content, message, MaxReminderDelayDays,
                           NoMoment(now), storeUp)
  \/ \E content \in JobIds \cup {UnknownId, NoJobId},
        message \in CancelMessages, storeUp \in BOOLEAN :
       HandleCancelCommand(content, message, storeUp)
  \/ \E id \in JobIds : Claim(CallWorker, id)
  \/ Tick

SpecCancel == Init /\ [][NextCancel]_vars

\* ------------------------------------------- ReminderQueue.getQueueStats
\* The five lists getQueueStats asks for, in the order of its Promise.all:
\* the five queries are sent one after the other on the connection of the
\* queue, and the commands of the workers, which have connections of their
\* own, may run between them.
StatsOrder == <<"waiting", "active", "completed", "failed", "delayed">>

\* queue.getWaiting(), getActive(), ...: the number of jobs in one list
CountOf(q, type) == Cardinality({i \in DOMAIN q : q[i].state = type})

NoStats ==
  [waiting |-> 0, active |-> 0, completed |-> 0, failed |-> 0, delayed |-> 0]

\* A client calls getQueueStats.
GetQueueStatsBegin ==
  /\ call = NoCall /\ worker = StartedWorker
  /\ call' = [op |-> "getQueueStats", pc |-> 1, stats |-> NoStats,
              before |-> jobs, after |-> jobs]
  /\ UNCHANGED <<now, jobs, hist, nForce, nFaults, calendar, worker>>

\* The next of the five queries runs in Redis.
GetQueueStatsQuery ==
  /\ call.op = "getQueueStats"
  /\ call.pc \in 1..Len(StatsOrder)
  /\ call' = [call EXCEPT !.pc = @ + 1,
                          !.stats[StatsOrder[call.pc]] =
                             CountOf(jobs, StatsOrder[call.pc])]
  /\ UNCHANGED <<now, jobs, hist, nForce, nFaults, calendar, worker>>

\* Promise.all resolves and getQueueStats returns the five counts.
GetQueueStatsReturn ==
  /\ call.op = "getQueueStats"
  /\ call.pc = Len(StatsOrder) + 1
  /\ call' = [call EXCEPT !.op = "getQueueStats returned", !.after = jobs]
  /\ UNCHANGED <<now, jobs, hist, nForce, nFaults, calendar, worker>>

\* Reminders are added, then a client asks for the statistics; while the
\* call runs the clock advances and the workers fetch and finish jobs.
NextStats ==
  \/ \E m \in Messages, d \in Delays, c \in Callers, k \in MessageIds :
       call = NoCall /\ AddReminder(m, d, c, k)
  \/ Tick
  \/ \E w \in Workers, id \in JobIds : Claim(w, id)
  \/ \E id \in JobIds : Process(id)
  \/ \E id \in JobIds : Complete(id)
  \/ GetQueueStatsBegin
  \/ GetQueueStatsQuery
  \/ GetQueueStatsReturn

SpecStats == Init /\ [][NextStats]_vars

\* ================================================================== claims

\* Ids that addReminder can produce
ReminderIds ==
  {[kind |-> "remind", key |-> k, at |-> t, retryAt |-> -1] :
     k \in MessageIds, t \in Times}

\* The retry jobs ever enqueued for the reminder with id `id`
RetriesOf(id) ==
  {r \in DOMAIN hist : r.kind = "retry" /\ r.key = id.key /\ r.at = id.at}

\* The reminder a retry job was enqueued for
OriginalOf(r) == [kind |-> "remind", key |-> r.key, at |-> r.at, retryAt |-> -1]

RECURSIVE SumCalls(_)
SumCalls(S) ==
  IF S = {} THEN 0
  ELSE LET x == CHOOSE y \in S : TRUE IN hist[x].calls + SumCalls(S \ {x})

\* The call placed for the job by the calling worker failed with ETIMEDOUT.
TransientCallFailure(id) ==
  /\ jobs[id].name = "reminder"
  /\ jobs[id].returnvalue.done
  /\ ~jobs[id].returnvalue.success
  /\ jobs[id].returnvalue.error = ErrConnectTimedOut

\* C1: when the call placed for a due 'reminder' job fails with a transient
\* error (ETIMEDOUT), exactly one retry job is enqueued for that reminder: never
\* more than one, and one once the attempt is over.
C1_ExactlyOneRetry ==
  \A id \in DOMAIN jobs :
    TransientCallFailure(id) =>
      /\ Cardinality(RetriesOf(id)) <= 1
      /\ jobs[id].state /= "active" => Cardinality(RetriesOf(id)) = 1

\* The last instant of the clock in the model
Horizon == MaxTicks * TickMs

Awaited(id) == id \in DOMAIN jobs /\ DueAt(jobs[id]) <= Horizon
Delivered(id) == id \in DOMAIN hist /\ hist[id].onTime
Cancelled(id) == id \in DOMAIN hist /\ hist[id].cancelled

\* C2: at-least-once delivery: under fair workers and an available store every
\* job inserted by addReminder (and due within the horizon) is eventually
\* cancelled or has a call placed for it at or after its due time.
C2_AtLeastOnce ==
  \A id \in ReminderIds : Awaited(id) ~> (Delivered(id) \/ Cancelled(id))

\* C3: a job is Completed only if the call placed for it reported success (its
\* result carries success and the call SID).
C3_CompletedOnlyOnSuccess ==
  \A id \in DOMAIN jobs :
    jobs[id].state = "completed" =>
      jobs[id].returnvalue.success /\ jobs[id].returnvalue.callSid

\* C4: the notification action is invoked at most once per job id, whatever
\* the interleaving of worker claims, forceProcessJob and cancelReminder.
C4_AtMostOneCallPerJob ==
  \A id \in DOMAIN hist : hist[id].calls <= 1

\* C5: for no job both a call is placed by a worker and cancelReminder
\* returns true.
C5_NeverCalledAndCancelled ==
  \A id \in DOMAIN hist : ~(hist[id].calls > 0 /\ hist[id].cancelled)

\* C6: cancelReminder returns true (and removes the job) only for a job that
\* is Waiting (in the wait list or the prioritized set) or Delayed.
C6_CancelOnlyPending ==
  [][\A id \in DOMAIN hist :
       (~hist[id].cancelled /\ hist'[id].cancelled) =>
         jobs[id].state \in {"waiting", "prioritized", "delayed"}]_vars

\* C7 as stated: no call is placed for a job before its due time, whichever
\* operation triggers it.
C7_NoCallBeforeDue ==
  \A id \in DOMAIN hist : ~hist[id].early

\* C7 as amended: a worker holds a job (Active) only once its due time has
\* elapsed, so a call placed before the due time comes from forceProcessJob.
C7_NoClaimBeforeDue ==
  /\ \A id \in DOMAIN jobs : jobs[id].state = "active" => DueAt(jobs[id]) <= now
  /\ \A id \in DOMAIN hist : hist[id].early => nForce > 0

\* A delayed job was claimed after the clock reached its due time and its call
\* was placed then, not earlier.
C7_Witness ==
  \E id \in DOMAIN jobs :
    /\ jobs[id].delay > 0
    /\ jobs[id].state = "active"
    /\ hist[id].onTime /\ ~hist[id].early

\* C8: for any original reminder the notification action is attempted at most
\* twice in total, the attempts of its retry jobs included.
C8_AtMostTwoAttempts ==
  \A id \in DOMAIN hist :
    id.kind = "remind" => hist[id].calls + SumCalls(RetriesOf(id)) <= 2

\* C10: the job added by scheduleRetry carries the payload of the failed job,
\* the delay min(300000, delay of the failed job) and its priority plus one.
C10_RetryJobFields ==
  [][\A r \in DOMAIN jobs' \ DOMAIN jobs :
       r.kind = "retry" =>
         LET failed == jobs[OriginalOf(r)]
         IN  /\ jobs'[r].name = "reminder-retry"
             /\ jobs'[r].data = failed.data
             /\ jobs'[r].delay = (IF failed.delay > 300000 THEN 300000
                                  ELSE failed.delay)
             /\ jobs'[r].priority = failed.priority + 1]_vars

\* A retry job of a calendar reminder that was delayed by more than 5 minutes:
\* its delay is the cap and its priority is 11.
C10_Witness ==
  \E r \in DOMAIN jobs :
    /\ r.kind = "retry"
    /\ jobs[r].delay = 300000
    /\ jobs[r].priority = 11
    /\ jobs[r].data.userId = "google-calendar"
    /\ OriginalOf(r) \in DOMAIN jobs
    /\ jobs[OriginalOf(r)].delay > 300000

\* The messages that contain one of the keywords, letter case ignored
RetryableOracle ==
  {ErrConnectTimedOut, ErrRateLimit, ErrEconnresetLower, ErrEnotfound,
   ErrEconnrefused, ErrNetworkLower, ErrRequestTimeout, ErrQuotaUpper}

\* C9: when the 'failed' handler passes a job to handleFailedJob, a retry job
\* is enqueued if and only if the error message contains one of the keywords,
\* letter case ignored; for every other message nothing is enqueued.
C9_RetryIffKeyword ==
  [][\A id \in DOMAIN jobs :
       ( /\ jobs[id].state = "active"
         /\ jobs[id].lockedBy = CallWorker
         /\ jobs[id].name = "reminder"
         /\ jobs'[id].attemptsMade = jobs[id].attemptsMade + 1 )
       => ( (DOMAIN jobs' /= DOMAIN jobs)
              <=> (jobs'[id].failedReason \in RetryableOracle) )]_vars

\* A failure whose message carries the keyword in upper case was retried.
C9_Witness ==
  \E id \in DOMAIN jobs :
    /\ jobs[id].failedReason = ErrConnectTimedOut
    /\ RetriesOf(id) /= {}

\* The jobs that some worker holds
ActiveJobs == {i \in DOMAIN jobs : jobs[i].state = "active"}

\* C11: in every reachable state at most 5 jobs are Active across all the
\* workers attached to the 'reminders' queue, and no job is dropped.
C11_AtMostFiveActive ==
  /\ Cardinality(ActiveJobs) <= 5
  /\ DOMAIN jobs = DOMAIN hist

\* The jobs that GoogleCalendarService has inserted
CalendarJobs ==
  {i \in DOMAIN jobs : jobs[i].data.userId = "google-calendar"}

\* C12: across the initial sync and every periodic sync at most one reminder
\* job is ever scheduled for the same calendar event.
C12_OneJobPerEvent ==
  \A e \in calendar.events :
    Cardinality({i \in DOMAIN hist : i.key = "calendar-" \o e.id}) <= 1

\* C13 (as stated): every job inserted by GoogleCalendarService has a delay
\* that passes the delay validator, 0 < delay <= maxDays * 86400000.
C13_CalendarDelayValid ==
  \A i \in CalendarJobs :
    /\ 0 < jobs[i].delay
    /\ jobs[i].delay \div 86400000 <= MaxReminderDelayDays
    /\ validateDelay(Ms(jobs[i].delay), MaxReminderDelayDays).isValid

\* C13 (amended): every job inserted by GoogleCalendarService has a delay of
\* at least 0 and less than 24 hours minus 10 minutes, hence not above the
\* maximum of the validator; a delay of 0 is inserted.
C13_CalendarDelayRange ==
  \A i \in CalendarJobs :
    /\ 0 <= jobs[i].delay
    /\ jobs[i].delay < 86400000 - 600000
    /\ \A d \in ConfigMaxDays :
         jobs[i].delay > 0 => validateDelay(Ms(jobs[i].delay), d).isValid

C13_Witness ==
  \E i \in CalendarJobs : jobs[i].delay = 0 /\ jobs[i].state = "prioritized"

\* C19: a calendar event that starts more than 10 minutes after the sync gets
\* a job with delay (start - now) - 600000, due 10 minutes before the start;
\* an event that starts within the next 10 minutes gets a job with delay 0.
C19_CalendarDelay ==
  \A i \in CalendarJobs :
    \E e \in calendar.events :
      /\ i.key = "calendar-" \o e.id
      /\ e.startTime > jobs[i].timestamp
      /\ IF e.startTime - jobs[i].timestamp > 600000
         THEN /\ jobs[i].delay = (e.startTime - jobs[i].timestamp) - 600000
              /\ jobs[i].timestamp + jobs[i].delay = e.startTime - 600000
         ELSE jobs[i].delay = 0

C19_Witness ==
  \E i, j \in CalendarJobs :
    /\ i.key = j.key
    /\ jobs[i].delay = ReminderAdvance /\ jobs[i].timestamp = 0
    /\ jobs[j].delay = 0 /\ jobs[j].timestamp = ReminderAdvance

\* C20: the parser returns the result of the first family whose pattern the
\* input matches, even when that result is invalid: an input of the relative
\* shape with value zero ("0h") is invalid with the error that the value must
\* be greater than 0, and no other family or the generic error decides.
C20_ZeroIsTerminal ==
  call.op = "parseTime" =>
    LET input == toLowerCase(trim(call.input))
    IN  MatchesRelative(input) =>
          /\ call.result = parseRelativeTime(input, now)
          /\ parseInt(SubSeq(input, 1, Len(input) - 1)) = 0 =>
                /\ ~call.result.isValid
                /\ call.result.error = <<"Time value must be greater than 0">>

\* C14: a ?remind command creates no job unless the time expression parses
\* as valid and its delay passes validateDelay; on a format error or a
\* validation error the queue is left unchanged, and every job created has
\* 0 < delay <= maxReminderDelayDays * 86400000.
C14_RemindValidates ==
  [][call'.op = "remind" =>
       /\ jobs' /= jobs =>
             /\ call'.command.isValid
             /\ call'.validation.isValid
             /\ call'.reply[1] = "Reminder Set!"
       /\ call'.reply[1] /= "Reminder Set!" => jobs' = jobs
       /\ \A id \in DOMAIN jobs' \ DOMAIN jobs :
             /\ 0 < jobs'[id].delay
             /\ jobs'[id].delay \div 86400000 <= call'.maxDays
             /\ jobs'[id].delay \div 86400000 = call'.maxDays =>
                   jobs'[id].delay % 86400000 = 0]_vars

C14_Witness ==
  /\ call.op = "remind"
  /\ ~call.validation.isValid /\ call.command.isValid
  /\ call.command.delayMs = Ms(8 * 86400000) /\ call.maxDays = 7
  /\ jobs = << >>

\* C15: when the store fails, addReminder, cancelReminder and getUserReminders
\* each report a failure the caller can tell from the normal negative
\* result: cancelReminder does not return what it returns for an unknown id,
\* getUserReminders does not return what it returns for an owner without
\* reminders.
C15_StoreFailureDistinct ==
  /\ (call.op = "addReminder" /\ ~call.storeUp) => call.outcome.thrown
  /\ (call.op = "cancelReminder" /\ ~call.storeUp) =>
       call.outcome /= cancelReminderCall(jobs, UnknownId, TRUE).outcome
  /\ (call.op = "getUserReminders" /\ ~call.storeUp) =>
       call.outcome /= getUserReminders(<< >>, call.args[1], TRUE)

\* C17: getUserReminders(userId) returns exactly the jobs that are not
\* terminal (neither completed nor failed) and whose owner is userId.
C17_ListsNonTerminal ==
  [][(call' /= call /\ call'.op = "getUserReminders" /\ call'.storeUp) =>
       call'.outcome.returned =
         {i \in DOMAIN jobs : /\ jobs[i].data.userId = call'.args[1]
                              /\ jobs[i].state \notin {"completed", "failed"}}]_vars

\* C18: any two successful inserts yield jobs with distinct ids and both are
\* stored, also when they carry the same correlation key within the same
\* millisecond: an addReminder that succeeds returns an id that no job
\* stored before has, and its job is stored next to them.
C18_InsertsDistinct ==
  [][(call' /= call /\ call'.op = "addReminder" /\ ~call'.outcome.thrown) =>
       /\ call'.outcome.returned \notin DOMAIN jobs
       /\ DOMAIN jobs' = DOMAIN jobs \cup {call'.outcome.returned}
       /\ jobs'[call'.outcome.returned].delay = call'.args[2]]_vars

\* How far a job has got: pending, held by a worker, finished
Progress(state) ==
  IF state = "active" THEN 1 ELSE IF state \in {"completed", "failed"} THEN 2 ELSE 0

\* The states a store may have passed through while its jobs went from the
\* states of q0 to the states of q1 (each job only moves forward): job id ->
\* state
StatesBetween(q0, q1) ==
  {S \in [DOMAIN q0 -> {"waiting", "prioritized", "delayed", "active",
                        "completed", "failed"}] :
     \A i \in DOMAIN q0 :
       /\ S[i] \in {q0[i].state, "active", q1[i].state}
       /\ Progress(q0[i].state) <= Progress(S[i])
       /\ Progress(S[i]) <= Progress(q1[i].state)}

\* C16: getQueueStats returns a consistent snapshot: the five counts it
\* returns are those of one single state that the store was in during the
\* call.
C16_ConsistentSnapshot ==
  call.op = "getQueueStats returned" =>
    \E S \in StatesBetween(call.before, call.after) :
      \A k \in 1..Len(StatsOrder) :
        call.stats[StatsOrder[k]] =
          Cardinality({i \in DOMAIN S : S[i] = StatsOrder[k]})

\* The input of the recorded parseTime call as the families see it
ParsedInput == toLowerCase(trim(call.input))

\* C21: an input of the clock shape whose hour, after the am/pm conversion,
\* is not in 0..23 or whose minute is not in 0..59 ("25:00") gives an invalid
\* result with the error "Invalid time values".
C21_InvalidClockValues ==
  call.op = "parseTime" =>
    LET m == MatchClock(ParsedInput)
    IN  /\ m.ok
        /\ Hour24(m.hour, m.period) \notin 0..23 \/ m.minute \notin 0..59
        => /\ ~call.result.isValid
           /\ call.result.error = <<"Invalid time values">>

\* The errors of the families that say the instant is in the past
PastErrors ==
  {<<"Date is in the past">>, <<"Timestamp is in the past">>,
   <<"Parsed time is in the past">>}

\* C22: an explicit date-time at or before now, and a timestamp of 10 or 13
\* digits at or before now, give an invalid result whose error says "past".
C22_PastIsReported ==
  call.op = "parseTime" =>
    LET m == MatchDateTime(ParsedInput)
        isPastDate ==
          /\ m.ok
          /\ NotAfter(MakeDate(m.year, m.month - 1, m.day,
                               Hour24(m.clock.hour, m.clock.period),
                               m.clock.minute), DateOf(now))
        isPastTimestamp ==
          /\ AllDigits(ParsedInput) /\ Len(ParsedInput) \in {10, 13}
          /\ NotAfter(UnixDate(ParsedInput), DateOf(now))
    IN  isPastDate \/ isPastTimestamp
        => /\ ~call.result.isValid
           /\ call.result.error \in PastErrors

\* C23: whenever parseTime returns isValid = TRUE, delayMs > 0, the timestamp
\* is strictly after the time of the parse, and delayMs is the timestamp
\* minus that time.
C23_ValidResult ==
  call.op = "parseTime" /\ call.result.isValid =>
    /\ ~NotAfter(call.result.delayMs, Ms(0))
    /\ call.result.timestamp /= InvalidDate
    /\ ~NotAfter(call.result.timestamp, DateOf(now))
    /\ call.result.delayMs = MsBetween(call.result.timestamp, DateOf(now))

\* n times c milliseconds, as days and milliseconds of a day
TimesMs(n, c) == Instant(n * (c \div MsPerDay), n * (c % MsPerDay))

\* C24: for a positive integer n and a unit u of s, m, h, d, w, in either
\* case, parseTime("<n><u>") is valid and delayMs = n * unitMs(u), unitMs
\* being 1000, 60000, 3600000, 86400000 and 604800000.
C24_RelativeDelay ==
  call.op = "parseTime" =>
    LET n == parseInt(SubSeq(ParsedInput, 1, Len(ParsedInput) - 1))
        u == ParsedInput[Len(ParsedInput)]
        unitMs == [s |-> 1000, m |-> 60000, h |-> 3600000, d |-> 86400000,
                   w |-> 604800000]
    IN  MatchesRelative(ParsedInput) /\ n > 0 =>
          /\ call.result.isValid
          /\ call.result.delayMs = TimesMs(n, unitMs[u])

C24_Witness ==
  /\ call.op = "parseTime" /\ call.input = <<"4", "5", "M">>
  /\ call.result.isValid /\ call.result.delayMs = Ms(45 * 60000)

\* C25: a string of exactly 10 digits is seconds since the epoch and one of
\* exactly 13 digits is milliseconds since the epoch; when that instant is
\* after now the result is valid and delayMs is the exact difference.
C25_UnixTimestamp ==
  call.op = "parseTime" /\ AllDigits(ParsedInput)
    /\ Len(ParsedInput) \in {10, 13} =>
    LET seconds == parseInt(SubSeq(ParsedInput, 1, 10))
        millis == IF Len(ParsedInput) = 10 THEN 0
                  ELSE parseInt(SubSeq(ParsedInput, 11, 13))
        instant == [day |-> seconds \div 86400,
                    ms |-> (seconds % 86400) * 1000 + millis]
    IN  ~NotAfter(instant, DateOf(now)) =>
          /\ call.result.isValid
          /\ call.result.timestamp = instant
          /\ call.result.delayMs
               = Instant(instant.day - EpochDay, instant.ms - now)

C25_Witness ==
  /\ call.op = "parseTime" /\ now = 10 * 60 * 60 * 1000
  /\ call.input = <<"1", "7", "0", "5", "3", "1", "2", "8", "0", "1">>
  /\ call.result.isValid /\ call.result.delayMs = Ms(1000)

\* C26: for a valid clock-time input the timestamp has the converted hour
\* (12 am is hour 0, 12 pm is hour 12, any other pm hour adds 12) and the
\* given minute; it is that time today when that is strictly after now, and
\* exactly one calendar day later otherwise.
C26_ClockTime ==
  call.op = "parseTime" =>
    LET m == MatchClock(ParsedInput)
        hour == CASE m.period = "am" /\ m.hour = 12 -> 0
                  [] m.period = "pm" /\ m.hour = 12 -> 12
                  [] m.period = "pm" /\ m.hour /= 12 -> m.hour + 12
                  [] OTHER -> m.hour
        ofDay == hour * 3600000 + m.minute * 60000
    IN  m.ok /\ hour \in 0..23 /\ m.minute \in 0..59 =>
          /\ call.result.isValid
          /\ call.result.timestamp.ms = ofDay
          /\ call.result.timestamp.day
               = IF ofDay > now THEN EpochDay ELSE EpochDay + 1

C26_Witness ==
  /\ call.op = "parseTime" /\ now = 10 * 60 * 60 * 1000
  /\ call.input = <<"1", "2", ":", "0", "0", "a", "m">>
  /\ call.result.isValid
  /\ call.result.timestamp = [day |-> EpochDay + 1, ms |-> 0]

\* Number of days of month `month` (1 = January) of year `year`
DaysInMonth(year, month) ==
  IF month = 12 THEN 31
  ELSE DaysToMonth(year, month) - DaysToMonth(year, month - 1)

\* C27: an explicit date-time input with an invalid calendar value (month 13,
\* day 32, hour 25, minute 70) gives an invalid result and is never
\* normalised into another date.
C27_InvalidCalendarValues ==
  call.op = "parseTime" =>
    LET m == MatchDateTime(ParsedInput)
        hour == Hour24(m.clock.hour, m.clock.period)
    IN  /\ m.ok
        /\ \/ m.month \notin 1..12
           \/ m.day \notin 1..DaysInMonth(m.year, m.month)
           \/ hour \notin 0..23
           \/ m.clock.minute \notin 0..59
        => ~call.result.isValid

\* C28: a bare weekday name ("monday" ... "sunday") is valid and resolves to
\* the next occurrence of that weekday: the delay is greater than 0 and at
\* most one week.
C28_WeekdayName ==
  call.op = "parseTime" /\ ParsedInput \in WeekdayNames =>
    /\ call.result.isValid
    /\ ~NotAfter(call.result.delayMs, Ms(0))
    /\ NotAfter(call.result.delayMs, [day |-> 7, ms |-> 0])

\* The input is "tomorrow H", "tomorrow Ham" or "tomorrow Hpm", H being one
\* or two digits: the form "tomorrow H[:MM][am|pm]" without the minutes
TomorrowWithoutMinutes(s) ==
  /\ Len(s) >= 10
  /\ SubSeq(s, 1, 9) = <<"t", "o", "m", "o", "r", "r", "o", "w", " ">>
  /\ LET rest == SubSeq(s, 10, Len(s))
         digits == LeadingDigits(rest)
     IN  /\ digits \in {1, 2}
         /\ SubSeq(rest, digits + 1, Len(rest))
              \in {<< >>, <<"a", "m">>, <<"p", "m">>}

\* C29: an input "tomorrow H[:MM][am|pm]" with the minutes omitted
\* ("tomorrow 9am") is accepted by the natural-language family and gives a
\* valid result.
C29_TomorrowWithoutMinutes ==
  call.op = "parseTime" /\ TomorrowWithoutMinutes(ParsedInput) =>
    call.result.isValid

\* C30: parseTime and validateDelay always return a structured result, for
\* the empty string and for white space too, and an invalid result of either
\* carries a defined, non-empty reason.
C30_AlwaysAReason ==
  /\ call.op = "parseTime" =>
       /\ DOMAIN call.result
            = {"isValid", "delayMs", "timestamp", "error", "originalInput"}
       /\ ~call.result.isValid =>
            /\ call.result.error /= << >>
            /\ call.result.error[1] /= ""
  /\ call.op = "validateDelay" =>
       /\ call.result.isValid
            <=> /\ ~NotAfter(call.delayMs, Ms(0))
                /\ ~ExceedsDays(call.delayMs, call.maxDays)
       /\ ~call.result.isValid => call.result.error /= ""

C30_Witness ==
  /\ call.op = "parseTime" /\ call.input = <<" ", " ">>
  /\ ~call.result.isValid
  /\ call.result.error[1] = "Unable to parse time format: "

\* C31: for every input, valid or not, originalInput of the result of
\* parseTime is the string that was passed, unchanged in letter case and
\* white space.
C31_OriginalInput ==
  call.op = "parseTime" => call.result.originalInput = call.input

\* C32: validateDelay(delay, maxDays) is valid exactly when
\* 0 < delay <= maxDays * 86400000; a delay <= 0 is rejected with "greater
\* than 0" and a delay above the maximum with "<maxDays> days".
C32_ValidateDelay ==
  call.op = "validateDelay" =>
    LET positive == call.delayMs.day > 0
                      \/ (call.delayMs.day = 0 /\ call.delayMs.ms > 0)
        withinMax == NotAfter(call.delayMs, [day |-> call.maxDays, ms |-> 0])
    IN  /\ call.result.isValid <=> positive /\ withinMax
        /\ ~positive => call.result.error = "Delay must be greater than 0"
        /\ positive /\ ~withinMax =>
             call.result.error
               = "Delay cannot exceed " \o ToString(call.maxDays) \o " days"

C32_Witness ==
  /\ call.op = "validateDelay" /\ call.maxDays = MaxReminderDelayDays
  /\ call.delayMs = [day |-> MaxReminderDelayDays, ms |-> 0]
  /\ call.result.isValid

\* The text that was parsed before the recorded formatDelay call, as the
\* families saw it
FormattedInput == toLowerCase(trim(call.input))

C34_FormatAllUnits ==
  call.op = "formatDelay" /\ call.delayMs = Ms(7323000) =>
    call.result = "2h 2m 3s"

\* C35: the whole time expression that follows -t, also one with a space in
\* it ("12/25/2024 2:00pm"), is what parseTime is given, and only the rest of
\* the text is the reminder message. Stated for a command that ends with
\* -t and an explicit date-time.
C35_WholeTimeExpression ==
  call.op = "remind" /\ TimeFlagStarts(trim(call.content)) /= {} =>
    LET content == trim(call.content)
        i == CHOOSE x \in TimeFlagStarts(content) :
               \A y \in TimeFlagStarts(content) : x <= y
        expression == trim(SubSeq(content, i + 2, Len(content)))
        before == trim(SubSeq(content, 1, i - 1))
        whole == parseTime(expression, now, [isValid |-> FALSE, date |-> DateOf(now)])
    IN  MatchDateTime(toLowerCase(expression)).ok /\ before /= << >> =>
          /\ call.command.message = before
          /\ call.command.isValid = whole.isValid
          /\ call.command.delayMs = whole.delayMs

\* C36: ReminderWorker processes no job, and so places no call, while
\* isRunning is false: not between its construction and start(), not after
\* start() has failed the Twilio connection test, not after stop() has
\* returned.
C36_NoCallUnlessRunning ==
  [][\A id \in DOMAIN hist :
       hist'[id].calls > hist[id].calls => worker.isRunning]_vars

\* C37: when GoogleCalendarService.start() has thrown, the service is not
\* running and no periodic sync is scheduled, and no calendar reminder is
\* inserted afterwards.
C37_FailedStartLeavesNothing ==
  [][calendar'.start = "threw" =>
       /\ ~calendar'.isRunning
       /\ ~calendar'.syncInterval
       /\ calendar.start = "threw" => CalendarJobs' \subseteq CalendarJobs]_vars

\* C38: start() begins syncing only when the connection test succeeds: when
\* testConnection() has failed, isRunning is not set and the periodic sync
\* is not started.
C38_NoSyncWithoutConnection ==
  calendar.connection = "failed" =>
    ~calendar.isRunning /\ ~calendar.syncInterval

\* C39: a ?cancel command removes a job only if the job is owned by the
\* author of the command: whenever handling a ?cancel message takes a job
\* out of the queue, the job's userId is the author of that message.
C39_CancelOnlyOwnJobs ==
  [][\A content \in JobIds \cup {UnknownId, NoJobId},
        message \in CancelMessages, storeUp \in BOOLEAN :
       HandleCancelCommand(content, message, storeUp) =>
         \A id \in DOMAIN jobs \ DOMAIN jobs' :
           jobs[id].data.userId = message.authorId]_vars

====
